---- MODULE Spec2Model ----
(***************************************************************************)
(* A model of the adoc AsciiDoc converter: the attribute reconciliation    *)
(* pass (parser.rs, process_block_attributes), the derivation of a         *)
(* language from an attribute line (extract_language_from_attributes),     *)
(* the inline scanner (parse_paragraph_content), the paragraph builder     *)
(* (parse_paragraph) and the HTML emitter of inline elements (ast.rs).     *)
(*                                                                         *)
(* A string is a sequence of bytes, each byte a TLA+ string: an ASCII      *)
(* character is one byte ("a", "[", " "), the two-byte character e-acute   *)
(* is the lead byte "C3" followed by the continuation byte "A9", and the   *)
(* backquote (0x60) is written "BQ".                                       *)
(* Positions are byte offsets counted from 0, as in the source.            *)
(***************************************************************************)
EXTENDS Integers, Sequences, FiniteSets, TLC

VARIABLES
    input_blocks,   \* the block list handed to process_block_attributes
    blocks,         \* process_block_attributes: the list being rewritten
    i,              \* process_block_attributes: the loop index
    rpc,            \* process_block_attributes: "idle", "loop" or "done"
    attr_text,      \* language derivation: the text of the attribute line
    language,       \* language derivation: the result, once derived
    lpc,            \* language derivation: "idle", "start" or "done"
    text,           \* parse_paragraph_content: its argument
    current_pos,    \* parse_paragraph_content: the scan position
    elements,       \* parse_paragraph_content: the elements pushed so far
    pc,             \* parse_paragraph_content: "idle", "scan", "done", "panic"
    lines,          \* parse_paragraph: the paragraph_text of each line
    line_no,        \* parse_paragraph: the number of lines handled
    content,        \* parse_paragraph: the inline content built so far
    first_line,     \* parse_paragraph: the first_line flag
    ppc,            \* parse_paragraph: "idle", "lines" or "done"
    esc_input,      \* escape_html: the text to escape
    esc_first,      \* escape_html: the result of the first call
    esc_output,     \* escape_html: the result of the last call
    esc_calls,      \* escape_html: the number of calls made
    doc,            \* Document::to_html: the document
    html,           \* Document::to_html: the string built so far
    block_no,       \* Document::to_html: the number of body blocks emitted
    hpc,            \* Document::to_html: "idle", "header", "body" or "done"
    args,           \* main: the command line, the program name first
    files,          \* main: what reading each path gives, a content or "unreadable"
    parse_result,   \* main: what parse_document gives for the content read
    stdout,         \* main: what was written to standard output
    stderr,         \* main: the messages written to standard error
    exit_code,      \* main: the exit code, once the process has ended
    calls,          \* main: the calls made so far, "read" and "parse"
    mpc,            \* main: "idle", "args", "read", "parse" or "exited"
    source,         \* parse_document: the lines of the input
    pairs,          \* parse_document: what the grammar recognized, once it has run
    pair_no,        \* parse_body: the number of block pairs handled
    pushed_blocks,  \* parse_body: the blocks pushed so far
    document,       \* parse_document: the result, once returned
    dpc             \* parse_document: "idle", "grammar", "blocks" or "done"

vars == <<input_blocks, blocks, i, rpc, attr_text, language, lpc,
          text, current_pos, elements, pc,
          lines, line_no, content, first_line, ppc,
          esc_input, esc_first, esc_output, esc_calls,
          doc, html, block_no, hpc,
          args, files, parse_result, stdout, stderr, exit_code, calls, mpc,
          source, pairs, pair_no, pushed_blocks, document, dpc>>

reconVars == <<input_blocks, blocks, i, rpc>>
langVars  == <<attr_text, language, lpc>>
scanVars  == <<text, current_pos, elements, pc>>
paraVars  == <<lines, line_no, content, first_line, ppc>>
escVars == <<esc_input, esc_first, esc_output, esc_calls>>
htmlVars == <<doc, html, block_no, hpc>>
mainVars == <<args, files, parse_result, stdout, stderr, exit_code, calls, mpc>>
parseVars == <<source, pairs, pair_no, pushed_blocks, document, dpc>>

-----------------------------------------------------------------------------
(* Option<T>, strings and the str methods the source uses.                 *)

None == << >>
Some(x) == << x >>
IsSome(o) == Len(o) = 1
Unwrap(o) == o[1]

SetMin(S) == CHOOSE m \in S : \A n \in S : m <= n

\* s[a..b] of the source, for 0 <= a <= b <= len.
Slice(s, a, b) == SubSeq(s, a + 1, b)

\* s[k] of the source (0-based).
At(s, k) == s[k + 1]

StartsWith(s, pat) == Len(s) >= Len(pat) /\ SubSeq(s, 1, Len(pat)) = pat

EndsWith(s, pat) ==
    Len(s) >= Len(pat) /\ SubSeq(s, Len(s) - Len(pat) + 1, Len(s)) = pat

\* str::find: the byte offset of the first occurrence of pat, or None.
Find(s, pat) ==
    LET hits == {k \in 0..(Len(s) - Len(pat)) :
                    SubSeq(s, k + 1, k + Len(pat)) = pat}
    IN  IF hits = {} THEN None ELSE Some(SetMin(hits))

Contains(s, pat) == IsSome(Find(s, pat))

\* char::is_whitespace, on the characters the inputs are built from.
IsWhitespace(ch) == ch \in {" ", "\t", "\n"}

RECURSIVE TrimStart(_)
TrimStart(s) ==
    IF s # << >> /\ IsWhitespace(Head(s)) THEN TrimStart(Tail(s)) ELSE s

RECURSIVE TrimEnd(_)
TrimEnd(s) ==
    IF s # << >> /\ IsWhitespace(s[Len(s)])
    THEN TrimEnd(SubSeq(s, 1, Len(s) - 1))
    ELSE s

\* str::trim
Trim(s) == TrimEnd(TrimStart(s))

\* str::split(','): the pieces between the commas, empty pieces kept.
RECURSIVE SplitComma(_)
SplitComma(s) ==
    LET c == Find(s, <<",">>)
    IN  IF IsSome(c)
        THEN <<Slice(s, 0, Unwrap(c))>>
                 \o SplitComma(Slice(s, Unwrap(c) + 1, Len(s)))
        ELSE <<s>>

\* UTF-8: the continuation byte of the two-byte character of the inputs.
IsContinuationByte(b) == b = "A9"

\* str::is_char_boundary
IsCharBoundary(s, p) ==
    \/ p = 0
    \/ p = Len(s)
    \/ (0 < p /\ p < Len(s) /\ ~IsContinuationByte(At(s, p)))

\* Whether the source's s[a..b] is taken without a panic.
SliceOk(s, a, b) ==
    /\ 0 <= a /\ a <= b /\ b <= Len(s)
    /\ IsCharBoundary(s, a) /\ IsCharBoundary(s, b)

-----------------------------------------------------------------------------
(* The tree (ast.rs).                                                      *)

Text(s) == [type |-> "Text", text |-> s]
Formatted(kind, inner) == [type |-> "Formatted", kind |-> kind, content |-> inner]
Macro(kind) == [type |-> "Macro", kind |-> kind]
Link(url, label) == [type |-> "Link", url |-> url, text |-> label]
CrossReference(target, label) ==
    [type |-> "CrossReference", target |-> target, text |-> label]

Paragraph(inner) == [type |-> "Paragraph", content |-> inner]
DelimitedBlock(kind, body, lang) ==
    [type |-> "DelimitedBlock", kind |-> kind, content |-> body, language |-> lang]
Section(level, title) ==
    [type |-> "Section", level |-> level, title |-> title, blocks |-> << >>]
List(kind, items) == [type |-> "List", kind |-> kind, items |-> items]
BlockMetadata(kind) == [type |-> "BlockMetadata", kind |-> kind]

-----------------------------------------------------------------------------
(* extract_language_from_attributes (parser.rs 260-275).                   *)

IsLanguageEntry_IgnoresColon(trimmed) ==
    trimmed # << >> /\ ~Contains(trimmed, <<"=">>)

\* parser.rs 269: the entry names a language.
IsLanguageEntry(trimmed) ==
    trimmed # << >> /\ ~Contains(trimmed, <<"=">>) /\ ~Contains(trimmed, <<":">>)

\* parser.rs 262-272: the loop over the entries, first return wins.
RECURSIVE FirstLanguage(_)
FirstLanguage(attrs) ==
    IF attrs = << >>
    THEN None
    ELSE LET trimmed == Trim(Head(attrs))
         IN  IF StartsWith(trimmed, <<",">>)
             THEN Some(Slice(trimmed, 1, Len(trimmed)))
             ELSE IF IsLanguageEntry(trimmed)
                  THEN Some(trimmed)
                  ELSE FirstLanguage(Tail(attrs))

extract_language_from_attributes(attributes) ==
    IF IsSome(attributes) THEN FirstLanguage(Unwrap(attributes)) ELSE None

-----------------------------------------------------------------------------
(* process_block_attributes (parser.rs 111-147).                           *)

LooksLikeBlockAttribute_AnyLength(b) ==
    /\ b.type = "Paragraph"
    /\ Len(b.content) >= 1
    /\ At(b.content, 0).type = "Text"
    /\ StartsWith(At(b.content, 0).text, <<"[">>)
    /\ At(b.content, Len(b.content) - 1).type = "Text"
    /\ EndsWith(At(b.content, Len(b.content) - 1).text, <<"]">>)

\* parser.rs 115-119: a paragraph of exactly one Text "[...]".
LooksLikeBlockAttribute(b) ==
    /\ b.type = "Paragraph"
    /\ Len(b.content) = 1
    /\ At(b.content, 0).type = "Text"
    /\ StartsWith(At(b.content, 0).text, <<"[">>)
    /\ EndsWith(At(b.content, 0).text, <<"]">>)

\* parser.rs 120-121: the bracket interior, split on ',', each entry trimmed.
AttributeEntries(t) ==
    LET attr_content == Slice(t, 1, Len(t) - 1)
        pieces == SplitComma(attr_content)
    IN  [k \in 1..Len(pieces) |-> Trim(pieces[k])]

\* parser.rs 127
NewLanguage(t) == extract_language_from_attributes(Some(AttributeEntries(t)))

NextIsDelimited_AnyNext(bs, k) == k + 1 < Len(bs)

\* parser.rs 124-125
NextIsDelimited(bs, k) ==
    k + 1 < Len(bs) /\ At(bs, k + 1).type = "DelimitedBlock"

\* parser.rs 115-125: the conditions under which the step merges.
MergeApplies(bs, k) ==
    LooksLikeBlockAttribute(At(bs, k)) /\ NextIsDelimited(bs, k)

Remove_Following(bs, k) == SubSeq(bs, 1, k + 1) \o SubSeq(bs, k + 3, Len(bs))

\* Vec::remove(k)
Remove(bs, k) == SubSeq(bs, 1, k) \o SubSeq(bs, k + 2, Len(bs))

\* parser.rs 125-134: if the next block is a DelimitedBlock, it is replaced
\* by one of the same kind and content with the new language.
ReplaceNext(bs, k) ==
    LET para == At(bs, k)
        next == At(bs, k + 1)
    IN  IF next.type = "DelimitedBlock"
        THEN [bs EXCEPT ![k + 2] =
                 DelimitedBlock(next.kind, next.content,
                                NewLanguage(At(para.content, 0).text))]
        ELSE bs

\* parser.rs 130-137: the next block replaced, the paragraph removed.
Merged(bs, k) == Remove(ReplaceNext(bs, k), k)

AfterMerge_Advances(k) == k + 1

\* parser.rs 138: continue, the index is not advanced.
AfterMerge(k) == k

\* parser.rs 145
AfterNoMerge(k) == k + 1

\* The whole loop, as a function of the list (parser.rs 112-146).
RECURSIVE ReconLoop(_, _)
ReconLoop(bs, k) ==
    IF k < Len(bs)
    THEN IF MergeApplies(bs, k)
         THEN ReconLoop(Merged(bs, k), AfterMerge(k))
         ELSE ReconLoop(bs, AfterNoMerge(k))
    ELSE bs

process_block_attributes(bs) == ReconLoop(bs, 0)

ReconMerge ==
    /\ rpc = "loop"
    /\ i < Len(blocks)
    /\ MergeApplies(blocks, i)
    /\ blocks' = Merged(blocks, i)
    /\ i' = AfterMerge(i)
    /\ UNCHANGED <<input_blocks, rpc, langVars, scanVars, paraVars, escVars, htmlVars, mainVars, parseVars>>

ReconAdvance ==
    /\ rpc = "loop"
    /\ i < Len(blocks)
    /\ ~MergeApplies(blocks, i)
    /\ i' = AfterNoMerge(i)
    /\ UNCHANGED <<input_blocks, blocks, rpc, langVars, scanVars, paraVars, escVars, htmlVars, mainVars, parseVars>>

ReconExit ==
    /\ rpc = "loop"
    /\ ~(i < Len(blocks))
    /\ rpc' = "done"
    /\ UNCHANGED <<input_blocks, blocks, i, langVars, scanVars, paraVars, escVars, htmlVars, mainVars, parseVars>>

-----------------------------------------------------------------------------
(* The language derivation on its own (parser.rs 119-127).                 *)

DeriveLanguage ==
    /\ lpc = "start"
    /\ language' = NewLanguage(attr_text)
    /\ lpc' = "done"
    /\ UNCHANGED <<attr_text, reconVars, scanVars, paraVars, escVars, htmlVars, mainVars, parseVars>>

-----------------------------------------------------------------------------
(* parse_paragraph_content (parser.rs 552-827): one iteration of the loop. *)

\* The outcome of one iteration: the branch taken, whether a slice
\* panicked, the elements pushed and the new current_pos.
Panicked(branch) ==
    [branch |-> branch, panic |-> TRUE, pushed |-> << >>, pos |-> 0]
Pushed(branch, pushed, pos) ==
    [branch |-> branch, panic |-> FALSE, pushed |-> pushed, pos |-> pos]

\* parser.rs 563-616: the markers in the order the source looks for them.
Markers ==
    << <<"*">>, <<"_">>, <<"BQ">>, <<"^">>, <<"~">>,
       <<"l", "i", "n", "k", ":">>,
       <<"h", "t", "t", "p", "s", ":", "/", "/">>,
       <<"h", "t", "t", "p", ":", "/", "/">>,
       <<"<", "<">> >>

IsEarlier_Always(pos, earliest_pos) == TRUE

\* parser.rs 564: a marker replaces the earliest one only if strictly before.
IsEarlier(pos, earliest_pos) == pos < earliest_pos

\* parser.rs 559-616: earliest_pos and marker_type after the nine checks.
RECURSIVE EarliestFrom(_, _, _)
EarliestFrom(remaining, k, acc) ==
    IF k > Len(Markers)
    THEN acc
    ELSE LET found == Find(remaining, Markers[k])
         IN  IF IsSome(found) /\ IsEarlier(Unwrap(found), acc.earliest_pos)
             THEN EarliestFrom(remaining, k + 1,
                      [earliest_pos |-> Unwrap(found),
                       marker_type |-> Some(Markers[k])])
             ELSE EarliestFrom(remaining, k + 1, acc)

Earliest(remaining) ==
    EarliestFrom(remaining, 1,
                 [earliest_pos |-> Len(remaining), marker_type |-> None])

FormattedKind_AlwaysStrong(marker) == "Strong"

\* parser.rs 632, 646, 660, 674, 688
FormattedKind(marker) ==
    CASE marker = <<"*">> -> "Strong"
      [] marker = <<"_">> -> "Emphasis"
      [] marker = <<"BQ">> -> "Monospace"
      [] marker = <<"^">> -> "Superscript"
      [] marker = <<"~">> -> "Subscript"

AfterClose_OnClose(actual_end) == actual_end

\* parser.rs 635, 649, 663, 677, 691
AfterClose(actual_end) == actual_end + 1

\* parser.rs 627-696: the five symmetric markers (the same code five times).
FormattedBranch(t, actual_start, marker) ==
    IF ~SliceOk(t, actual_start + 1, Len(t))
    THEN Panicked("formatted")
    ELSE LET end == Find(Slice(t, actual_start + 1, Len(t)), marker)
         IN  IF IsSome(end)
             THEN LET actual_end == actual_start + 1 + Unwrap(end)
                  IN  IF ~SliceOk(t, actual_start + 1, actual_end)
                      THEN Panicked("formatted_closed")
                      ELSE Pushed("formatted_closed",
                               <<Formatted(FormattedKind(marker),
                                     <<Text(Slice(t, actual_start + 1, actual_end))>>)>>,
                               AfterClose(actual_end))
             ELSE IF ~SliceOk(t, actual_start, actual_start + 1)
                  THEN Panicked("formatted_unclosed")
                  ELSE Pushed("formatted_unclosed",
                           <<Text(Slice(t, actual_start, actual_start + 1))>>,
                           actual_start + 1)

\* parser.rs 711, 760: an empty link text is absent.
OptionalText(link_text) == IF link_text = << >> THEN None ELSE Some(link_text)

LinkUrlStart_AfterColonAndOne(actual_start) == actual_start + 6

\* parser.rs 700: after "link:"
LinkUrlStart(actual_start) == actual_start + 5

LinkLiteral_Stays(t, actual_start) ==
    IF ~SliceOk(t, actual_start, actual_start + 5)
    THEN Panicked("link_literal")
    ELSE Pushed("link_literal",
             <<Text(Slice(t, actual_start, actual_start + 5))>>,
             actual_start)

\* parser.rs 716, 720: "link:" pushed as literal text.
LinkLiteral(t, actual_start) ==
    IF ~SliceOk(t, actual_start, actual_start + 5)
    THEN Panicked("link_literal")
    ELSE Pushed("link_literal",
             <<Text(Slice(t, actual_start, actual_start + 5))>>,
             actual_start + 5)

\* parser.rs 697-723
LinkBranch(t, actual_start) ==
    IF ~SliceOk(t, actual_start, Len(t))
    THEN Panicked("link")
    ELSE LET bracket_start == Find(Slice(t, actual_start, Len(t)), <<"[">>)
         IN  IF ~IsSome(bracket_start)
             THEN LinkLiteral(t, actual_start)
             ELSE IF ~SliceOk(t, actual_start + Unwrap(bracket_start), Len(t))
             THEN Panicked("link")
             ELSE LET bracket_end ==
                          Find(Slice(t, actual_start + Unwrap(bracket_start), Len(t)),
                               <<"]">>)
                  IN  IF ~IsSome(bracket_end)
                      THEN LinkLiteral(t, actual_start)
                      ELSE LET url_start == LinkUrlStart(actual_start)
                               url_end == actual_start + Unwrap(bracket_start)
                               text_start == actual_start + Unwrap(bracket_start) + 1
                               text_end == actual_start + Unwrap(bracket_start)
                                               + Unwrap(bracket_end)
                           IN  IF ~SliceOk(t, url_start, url_end)
                                    \/ ~SliceOk(t, text_start, text_end)
                               THEN Panicked("link_macro")
                               ELSE Pushed("link_macro",
                                        <<Macro(Link(Slice(t, url_start, url_end),
                                              OptionalText(Slice(t, text_start, text_end))))>>,
                                        text_end + 1)

\* The length in bytes of the character whose first byte is b.
CharLen(b) == IF b = "C3" THEN 2 ELSE 1

\* str::char_indices: the byte offset of every character of s.
RECURSIVE CharIndicesFrom(_, _)
CharIndicesFrom(s, off) ==
    IF off >= Len(s)
    THEN << >>
    ELSE <<off>> \o CharIndicesFrom(s, off + CharLen(At(s, off)))

CharIndices(s) == CharIndicesFrom(s, 0)

\* str::chars: the characters of s, each the sequence of its bytes.
Chars(s) ==
    LET offs == CharIndices(s)
    IN  [k \in 1..Len(offs) |->
            SubSeq(s, offs[k] + 1,
                   IF offs[k] + CharLen(At(s, offs[k])) <= Len(s)
                   THEN offs[k] + CharLen(At(s, offs[k]))
                   ELSE Len(s))]

IsWhitespaceChar(ch) == Len(ch) = 1 /\ IsWhitespace(ch[1])

\* parser.rs 737: a '.' followed by whitespace or by nothing.
SentenceEnd(chars, k) ==
    /\ At(chars, k) = <<".">>
    /\ (k + 1 < Len(chars) => IsWhitespaceChar(At(chars, k + 1)))

EndsUrl_NotAtBracket(chars, k) ==
    \/ IsWhitespaceChar(At(chars, k))
    \/ At(chars, k) \in {<<",">>, <<")">>, <<">">>}
    \/ SentenceEnd(chars, k)

\* parser.rs 732-745: the character at index k ends the URL.
EndsUrl(chars, k) ==
    \/ IsWhitespaceChar(At(chars, k))
    \/ At(chars, k) \in {<<",">>, <<")">>, <<">">>}
    \/ SentenceEnd(chars, k)
    \/ At(chars, k) = <<"[">>

UrlEndAt_CharIndex(actual_start, remaining_text, k) == actual_start + k

\* parser.rs 733, 738, 743: the byte offset of the character at index k.
UrlEndAt(actual_start, remaining_text, k) ==
    actual_start + At(CharIndices(remaining_text), k)

\* parser.rs 727-746: url_end after the loop over the characters.
UrlEnd(t, actual_start) ==
    LET remaining_text == Slice(t, actual_start, Len(t))
        chars == Chars(remaining_text)
        stops == {k \in 0..(Len(chars) - 1) : EndsUrl(chars, k)}
    IN  IF stops = {}
        THEN Len(t)
        ELSE UrlEndAt(actual_start, remaining_text, SetMin(stops))

\* parser.rs 766-772, 776-782: the URL as its own text.
UrlBare(url, url_end) ==
    Pushed("url_bare", <<Macro(Link(url, Some(url)))>>, url_end)

\* parser.rs 724-784
UrlBranch(t, actual_start) ==
    IF ~SliceOk(t, actual_start, Len(t))
    THEN Panicked("url")
    ELSE LET url_start == actual_start
             url_end == UrlEnd(t, actual_start)
         IN  IF ~SliceOk(t, url_start, url_end)
             THEN Panicked("url")
             ELSE LET url == Slice(t, url_start, url_end)
                  IN  IF SliceOk(t, url_end, url_end + 1)
                             /\ Slice(t, url_end, url_end + 1) = <<"[">>
                      THEN IF ~SliceOk(t, url_end + 1, Len(t))
                           THEN Panicked("url")
                           ELSE LET bracket_end ==
                                        Find(Slice(t, url_end + 1, Len(t)), <<"]">>)
                                IN  IF IsSome(bracket_end)
                                    THEN LET text_start == url_end + 1
                                             text_end == url_end + 1 + Unwrap(bracket_end)
                                         IN  IF ~SliceOk(t, text_start, text_end)
                                             THEN Panicked("url_labelled")
                                             ELSE Pushed("url_labelled",
                                                      <<Macro(Link(url,
                                                            OptionalText(Slice(t, text_start, text_end))))>>,
                                                      text_end + 1)
                                    ELSE UrlBare(url, url_end)
                      ELSE UrlBare(url, url_end)

XrefOf_Untrimmed(inner) ==
    LET comma_pos == Find(inner, <<",">>)
    IN  IF IsSome(comma_pos)
        THEN CrossReference(
                 Slice(inner, 0, Unwrap(comma_pos)),
                 OptionalText(Slice(inner, Unwrap(comma_pos) + 1, Len(inner))))
        ELSE CrossReference(inner, None)

\* parser.rs 791-806: the cross-reference made from the interior.
XrefOf(inner) ==
    LET comma_pos == Find(inner, <<",">>)
    IN  IF IsSome(comma_pos)
        THEN CrossReference(
                 Trim(Slice(inner, 0, Unwrap(comma_pos))),
                 OptionalText(Trim(Slice(inner, Unwrap(comma_pos) + 1, Len(inner)))))
        ELSE CrossReference(inner, None)

\* parser.rs 785-813
XrefBranch(t, actual_start) ==
    IF ~SliceOk(t, actual_start + 2, Len(t))
    THEN Panicked("xref")
    ELSE LET end_pos == Find(Slice(t, actual_start + 2, Len(t)), <<">", ">">>)
         IN  IF IsSome(end_pos)
             THEN LET actual_end == actual_start + 2 + Unwrap(end_pos)
                  IN  IF ~SliceOk(t, actual_start + 2, actual_end)
                      THEN Panicked("xref_macro")
                      ELSE Pushed("xref_macro",
                               <<Macro(XrefOf(Slice(t, actual_start + 2, actual_end)))>>,
                               actual_end + 2)
             ELSE IF ~SliceOk(t, actual_start, actual_start + 2)
                  THEN Panicked("xref_literal")
                  ELSE Pushed("xref_literal",
                           <<Text(Slice(t, actual_start, actual_start + 2))>>,
                           actual_start + 2)

\* parser.rs 626-818: the match on the marker.
MarkerBranch(t, actual_start, marker) ==
    CASE marker \in {<<"*">>, <<"_">>, <<"BQ">>, <<"^">>, <<"~">>} ->
             FormattedBranch(t, actual_start, marker)
      [] marker = <<"l", "i", "n", "k", ":">> -> LinkBranch(t, actual_start)
      [] marker \in {<<"h", "t", "t", "p", "s", ":", "/", "/">>,
                     <<"h", "t", "t", "p", ":", "/", "/">>} ->
             UrlBranch(t, actual_start)
      [] marker = <<"<", "<">> -> XrefBranch(t, actual_start)

ScanStep_TextBeforeAlways(t, pos) ==
    IF ~SliceOk(t, pos, Len(t))
    THEN Panicked("start")
    ELSE LET remaining == Slice(t, pos, Len(t))
             e == Earliest(remaining)
         IN  IF IsSome(e.marker_type)
             THEN LET actual_start == pos + e.earliest_pos
                      r == MarkerBranch(t, actual_start, Unwrap(e.marker_type))
                  IN  IF ~SliceOk(t, pos, actual_start)
                      THEN Panicked("before")
                      ELSE [r EXCEPT !.pushed =
                               <<Text(Slice(t, pos, actual_start))>> \o @]
             ELSE Pushed("no_marker", <<Text(Slice(t, pos, Len(t)))>>, pos)

\* parser.rs 556-824: the loop body at position pos < len.  In branch
\* "no_marker" the loop is left (break) and current_pos is not assigned.
ScanStep(t, pos) ==
    IF ~SliceOk(t, pos, Len(t))
    THEN Panicked("start")
    ELSE LET remaining == Slice(t, pos, Len(t))
             e == Earliest(remaining)
         IN  IF IsSome(e.marker_type)
             THEN LET actual_start == pos + e.earliest_pos
                      r == MarkerBranch(t, actual_start, Unwrap(e.marker_type))
                  IN  IF e.earliest_pos > 0
                      THEN IF ~SliceOk(t, pos, actual_start)
                           THEN Panicked("before")
                           ELSE [r EXCEPT !.pushed =
                                    <<Text(Slice(t, pos, actual_start))>> \o @]
                      ELSE r
             ELSE Pushed("no_marker", <<Text(Slice(t, pos, Len(t)))>>, pos)

\* parser.rs 556-818: one iteration that finds a marker and handles it.
\* A slice out of range or off a character boundary panics.
ScanMarker ==
    /\ pc = "scan"
    /\ current_pos < Len(text)
    /\ LET r == ScanStep(text, current_pos)
       IN  /\ r.branch # "no_marker"
           /\ elements' = IF r.panic THEN elements ELSE elements \o r.pushed
           /\ current_pos' = IF r.panic THEN current_pos ELSE r.pos
           /\ pc' = IF r.panic THEN "panic" ELSE "scan"
    /\ UNCHANGED <<text, reconVars, langVars, paraVars, escVars, htmlVars, mainVars, parseVars>>

\* parser.rs 556-618, 819-823: no marker is left, the rest is pushed as one
\* Text and the loop is left.
ScanNoMarker ==
    /\ pc = "scan"
    /\ current_pos < Len(text)
    /\ LET r == ScanStep(text, current_pos)
       IN  /\ r.branch = "no_marker"
           /\ elements' = elements \o r.pushed
           /\ current_pos' = r.pos
           /\ pc' = "done"
    /\ UNCHANGED <<text, reconVars, langVars, paraVars, escVars, htmlVars, mainVars, parseVars>>

\* parser.rs 556, 826: the loop condition fails, the elements are returned.
ScanExit ==
    /\ pc = "scan"
    /\ ~(current_pos < Len(text))
    /\ pc' = "done"
    /\ UNCHANGED <<text, current_pos, elements, reconVars, langVars, paraVars, escVars, htmlVars, mainVars, parseVars>>

\* parse_paragraph_content as a function: the elements, or Panics.
Panics == "panic"

RECURSIVE ScanLoop(_, _, _)
ScanLoop(t, pos, elems) ==
    IF pos < Len(t)
    THEN LET r == ScanStep(t, pos)
         IN  IF r.panic
             THEN Panics
             ELSE IF r.branch = "no_marker"
                  THEN elems \o r.pushed
                  ELSE ScanLoop(t, r.pos, elems \o r.pushed)
    ELSE elems

parse_paragraph_content(t) == ScanLoop(t, 0, << >>)

-----------------------------------------------------------------------------
(* parse_paragraph (parser.rs 394-414): each paragraph_text is scanned on  *)
(* its own, a Text(" ") is pushed between the lines.                       *)

\* parser.rs 403
NeedsSpace(first, inner) == ~first /\ inner # << >>

\* parser.rs 401-406: the space is pushed, the scanner is called on the line.
ParaBeginLine ==
    /\ ppc = "lines"
    /\ pc = "idle"
    /\ line_no < Len(lines)
    /\ content' = IF NeedsSpace(first_line, content)
                  THEN content \o <<Text(<<" ">>)>>
                  ELSE content
    /\ text' = At(lines, line_no)
    /\ current_pos' = 0
    /\ elements' = << >>
    /\ pc' = "scan"
    /\ UNCHANGED <<lines, line_no, first_line, ppc, reconVars, langVars, escVars, htmlVars, mainVars, parseVars>>

\* parser.rs 406-407: the scanner has returned, its elements are appended.
ParaEndLine ==
    /\ ppc = "lines"
    /\ pc = "done"
    /\ content' = content \o elements
    /\ first_line' = FALSE
    /\ line_no' = line_no + 1
    /\ text' = << >>
    /\ current_pos' = 0
    /\ elements' = << >>
    /\ pc' = "idle"
    /\ UNCHANGED <<lines, ppc, reconVars, langVars, escVars, htmlVars, mainVars, parseVars>>

\* parser.rs 413
ParaReturn ==
    /\ ppc = "lines"
    /\ pc = "idle"
    /\ ~(line_no < Len(lines))
    /\ ppc' = "done"
    /\ UNCHANGED <<lines, line_no, content, first_line, scanVars, reconVars, langVars, escVars, htmlVars, mainVars, parseVars>>

-----------------------------------------------------------------------------
(* HTML of the inline elements (ast.rs 215-260).                           *)

\* The literal pieces of the markup (ast.rs 219-260).
EntityAmp == <<"&", "a", "m", "p", ";">>
EntityLt == <<"&", "l", "t", ";">>
EntityGt == <<"&", "g", "t", ";">>
EntityQuot == <<"&", "q", "u", "o", "t", ";">>
EntityApos == <<"&", "#", "3", "9", ";">>
AnchorOpenHash == <<"<", "a", " ", "h", "r", "e", "f", "=", "\"", "#">>
AnchorOpen == <<"<", "a", " ", "h", "r", "e", "f", "=", "\"">>
AttrClose == <<"\"", ">">>
AnchorClose == <<"<", "/", "a", ">">>
ImgOpen == <<"<", "i", "m", "g", " ", "s", "r", "c", "=", "\"">>
ImgAlt == <<"\"", " ", "a", "l", "t", "=", "\"">>
ImageWord == <<"I", "m", "a", "g", "e">>
BrNewline == <<"<", "b", "r", ">", "\n">>

\* str::replace(ch, rep) for a one-byte pattern.
RECURSIVE Replace(_, _, _)
Replace(s, ch, rep) ==
    IF s = << >>
    THEN << >>
    ELSE (IF Head(s) = ch THEN rep ELSE <<Head(s)>>) \o Replace(Tail(s), ch, rep)

escape_html_AmpersandLast(s) ==
    Replace(Replace(Replace(Replace(Replace(s,
        "<", EntityLt), ">", EntityGt), "\"", EntityQuot), "'", EntityApos), "&", EntityAmp)

escape_html_AmpersandKept(s) ==
    Replace(Replace(Replace(Replace(s,
        "<", EntityLt), ">", EntityGt), "\"", EntityQuot), "'", EntityApos)

\* ast.rs 254-260: five replacements, one after the other, '&' first.
escape_html(s) ==
    Replace(Replace(Replace(Replace(Replace(s,
        "&", EntityAmp), "<", EntityLt), ">", EntityGt), "\"", EntityQuot), "'", EntityApos)

\* ast.rs 219-227
FormattedTag(kind) ==
    CASE kind = "Strong" -> <<"s", "t", "r", "o", "n", "g">>
      [] kind = "Emphasis" -> <<"e", "m">>
      [] kind = "Monospace" -> <<"c", "o", "d", "e">>
      [] kind = "Superscript" -> <<"s", "u", "p">>
      [] kind = "Subscript" -> <<"s", "u", "b">>

\* ast.rs 232, 240: text.map(escape_html).unwrap_or_else(|| escape_html(..))
LinkText(label, fallback) ==
    IF IsSome(label) THEN escape_html(Unwrap(label)) ELSE escape_html(fallback)

\* ast.rs 231-243
MacroToHtml(kind) ==
    CASE kind.type = "Link" ->
            AnchorOpen \o escape_html(kind.url) \o AttrClose
                \o LinkText(kind.text, kind.url) \o AnchorClose
      [] kind.type = "Image" ->
            ImgOpen \o escape_html(kind.path) \o ImgAlt
                \o (IF IsSome(kind.attributes)
                    THEN escape_html(Unwrap(kind.attributes))
                    ELSE ImageWord)
                \o AttrClose
      [] kind.type = "CrossReference" ->
            AnchorOpenHash \o escape_html(kind.target) \o AttrClose
                \o LinkText(kind.text, kind.target) \o AnchorClose

RECURSIVE InlineToHtml(_), inline_elements_to_html(_)

\* ast.rs 215-248: InlineElement::to_html
InlineToHtml(e) ==
    CASE e.type = "Text" -> escape_html(e.text)
      [] e.type = "Formatted" ->
            <<"<">> \o FormattedTag(e.kind) \o <<">">>
                \o inline_elements_to_html(e.content)
                \o <<"<", "/">> \o FormattedTag(e.kind) \o <<">">>
      [] e.type = "Macro" -> MacroToHtml(e.kind)
      [] e.type = "LineBreak" -> BrNewline

\* ast.rs 250-252
inline_elements_to_html(es) ==
    IF es = << >>
    THEN << >>
    ELSE InlineToHtml(Head(es)) \o inline_elements_to_html(Tail(es))

-----------------------------------------------------------------------------
(* HTML of the blocks and of the document (ast.rs 7-21, 136-213).          *)

Header(title) == [title |-> title, attributes |-> << >>]
Document(header, body) == [header |-> header, body |-> body]
SectionOf(level, title, inner) ==
    [type |-> "Section", level |-> level, title |-> title, blocks |-> inner]
ListItem(kind, inner) == [type |-> kind, level |-> 1, content |-> inner]
DescriptionItem(term, description) ==
    [type |-> "Description", term |-> term, description |-> description]

\* The literal pieces of the markup of the blocks (ast.rs 149-213).
DtOpen == <<"<", "d", "t", ">">>
DtClose == <<"<", "/", "d", "t", ">", "\n">>
DdOpen == <<"<", "d", "d", ">">>
DdClose == <<"<", "/", "d", "d", ">", "\n">>
LiOpen == <<"<", "l", "i", ">">>
LiClose == <<"<", "/", "l", "i", ">", "\n">>
CodeOpenLanguage == <<"<", "c", "o", "d", "e", " ", "c", "l", "a", "s", "s", "=", "\"", "l", "a", "n", "g", "u", "a", "g", "e", "-">>
CodeOpenPlain == <<"<", "c", "o", "d", "e", ">">>
PreOpen == <<"<", "p", "r", "e", ">">>
CodePreClose == <<"<", "/", "c", "o", "d", "e", ">", "<", "/", "p", "r", "e", ">", "\n">>
ExampleOpen == <<"<", "d", "i", "v", " ", "c", "l", "a", "s", "s", "=", "\"", "e", "x", "a", "m", "p", "l", "e", "\"", ">">>
DivClose == <<"<", "/", "d", "i", "v", ">", "\n">>
PreClose == <<"<", "/", "p", "r", "e", ">", "\n">>
AsideOpen == <<"<", "a", "s", "i", "d", "e", ">">>
AsideClose == <<"<", "/", "a", "s", "i", "d", "e", ">", "\n">>
BlockquoteOpen == <<"<", "b", "l", "o", "c", "k", "q", "u", "o", "t", "e", ">">>
BlockquoteClose == <<"<", "/", "b", "l", "o", "c", "k", "q", "u", "o", "t", "e", ">", "\n">>

\* format!("{}", n) for the numbers a heading level can be.
Digits == <<"0", "1", "2", "3", "4", "5", "6", "7", "8", "9">>
Decimal(n) == <<Digits[n + 1]>>

Min(a, b) == IF a < b THEN a ELSE b

HeadingLevel_ClampedBelow(level) == IF level < 1 THEN 1 ELSE Min(level, 6)

\* ast.rs 140: (*level).min(6)
HeadingLevel(level) == Min(level, 6)

\* ast.rs 141: the heading of a section.
Heading(level, title) ==
    <<"<", "h">> \o Decimal(level) \o <<">">> \o escape_html(title)
        \o <<"<", "/", "h">> \o Decimal(level) \o <<">", "\n">>

\* ast.rs 198-213: ListItem::to_html
ListItemToHtml(item) ==
    IF item.type = "Description"
    THEN DtOpen \o escape_html(item.term) \o DtClose
             \o (IF IsSome(item.description)
                 THEN DdOpen \o inline_elements_to_html(Unwrap(item.description))
                          \o DdClose
                 ELSE << >>)
    ELSE LiOpen \o inline_elements_to_html(item.content) \o LiClose

RECURSIVE ListItemsToHtml(_)
ListItemsToHtml(items) ==
    IF items = << >>
    THEN << >>
    ELSE ListItemToHtml(Head(items)) \o ListItemsToHtml(Tail(items))

\* ast.rs 166-191: the tag of each kind of list.
ListTag(kind) ==
    CASE kind = "Unordered" -> <<"u", "l">>
      [] kind = "Ordered" -> <<"o", "l">>
      [] kind = "Description" -> <<"d", "l">>

CodeOpen_Unescaped(lang) ==
    IF IsSome(lang)
    THEN CodeOpenLanguage \o Unwrap(lang) \o <<"\"", ">">>
    ELSE CodeOpenPlain

\* ast.rs 152-156: the <code> tag of a listing.
CodeOpen(lang) ==
    IF IsSome(lang)
    THEN CodeOpenLanguage \o escape_html(Unwrap(lang)) \o <<"\"", ">">>
    ELSE CodeOpenPlain

\* ast.rs 149-164
DelimitedToHtml(kind, body, lang) ==
    CASE kind = "Listing" ->
            PreOpen \o CodeOpen(lang) \o escape_html(body) \o CodePreClose
      [] kind = "Example" -> ExampleOpen \o escape_html(body) \o DivClose
      [] kind = "Literal" -> PreOpen \o escape_html(body) \o PreClose
      [] kind = "Sidebar" -> AsideOpen \o escape_html(body) \o AsideClose
      [] kind = "Quote" -> BlockquoteOpen \o escape_html(body) \o BlockquoteClose

RECURSIVE BlockToHtml(_), BlocksToHtml(_)

\* ast.rs 136-196: Block::to_html
BlockToHtml(block) ==
    CASE block.type = "Section" ->
            Heading(HeadingLevel(block.level), block.title)
                \o BlocksToHtml(block.blocks)
      [] block.type = "Paragraph" ->
            <<"<", "p", ">">> \o inline_elements_to_html(block.content)
                \o <<"<", "/", "p", ">", "\n">>
      [] block.type = "DelimitedBlock" ->
            DelimitedToHtml(block.kind, block.content, block.language)
      [] block.type = "List" ->
            <<"<">> \o ListTag(block.kind) \o <<">", "\n">>
                \o ListItemsToHtml(block.items)
                \o <<"<", "/">> \o ListTag(block.kind) \o <<">", "\n">>
      [] block.type = "BlockMetadata" -> << >>

\* ast.rs 142-144, 15-17: the blocks one after the other.
BlocksToHtml(bs) ==
    IF bs = << >> THEN << >> ELSE BlockToHtml(Head(bs)) \o BlocksToHtml(Tail(bs))

HeaderToHtml_Unescaped(header) ==
    IF IsSome(header)
    THEN <<"<", "h", "1", ">">> \o Unwrap(header).title
             \o <<"<", "/", "h", "1", ">", "\n">>
    ELSE << >>

\* ast.rs 11-13: the line of the header.
HeaderToHtml(header) ==
    IF IsSome(header)
    THEN <<"<", "h", "1", ">">> \o escape_html(Unwrap(header).title)
             \o <<"<", "/", "h", "1", ">", "\n">>
    ELSE << >>

\* ast.rs 11-13
HtmlHeader ==
    /\ hpc = "header"
    /\ html' = html \o HeaderToHtml(doc.header)
    /\ hpc' = "body"
    /\ UNCHANGED <<doc, block_no, reconVars, langVars, scanVars, paraVars, escVars, mainVars, parseVars>>

\* ast.rs 15-17: one turn of the loop over the body.
HtmlBlock ==
    /\ hpc = "body"
    /\ block_no < Len(doc.body)
    /\ html' = html \o BlockToHtml(At(doc.body, block_no))
    /\ block_no' = block_no + 1
    /\ UNCHANGED <<doc, hpc, reconVars, langVars, scanVars, paraVars, escVars, mainVars, parseVars>>

\* ast.rs 19
HtmlReturn ==
    /\ hpc = "body"
    /\ ~(block_no < Len(doc.body))
    /\ hpc' = "done"
    /\ UNCHANGED <<doc, html, block_no, reconVars, langVars, scanVars, paraVars, escVars, mainVars, parseVars>>

-----------------------------------------------------------------------------
(* The command-line driver (main.rs 9-37). Standard output and standard    *)
(* error are taken to be writable, the command line to hold the program    *)
(* name; parse_document is a result given for the content read.            *)

Ok(v) == [ok |-> TRUE, value |-> v]
Err(e) == [ok |-> FALSE, error |-> e]

\* main.rs 12: the program name and one path.
ExpectedArgs == 2

\* main.rs 36: main returns.
ExitSuccess == 0

ExitFailure_AsSuccess == ExitSuccess

\* main.rs 14, 23, 34: process::exit(1)
ExitFailure == 1

\* main.rs 12-15
MainCheckArgs ==
    /\ mpc = "args"
    /\ IF Len(args) # ExpectedArgs
       THEN /\ stderr' = Append(stderr, [message |-> "Usage", program |-> args[1]])
            /\ exit_code' = Some(ExitFailure)
            /\ mpc' = "exited"
       ELSE /\ mpc' = "read"
            /\ UNCHANGED <<stderr, exit_code, parseVars>>
    /\ UNCHANGED <<args, files, parse_result, stdout, calls,
                   reconVars, langVars, scanVars, paraVars, escVars, htmlVars, parseVars>>

\* main.rs 17-25
MainReadFile ==
    /\ mpc = "read"
    /\ calls' = Append(calls, "read")
    /\ IF files[args[2]].ok
       THEN /\ mpc' = "parse"
            /\ UNCHANGED <<stderr, exit_code, parseVars>>
       ELSE /\ stderr' = Append(stderr, [message |-> "Error reading file",
                                        path |-> args[2],
                                        error |-> files[args[2]].error])
            /\ exit_code' = Some(ExitFailure)
            /\ mpc' = "exited"
    /\ UNCHANGED <<args, files, parse_result, stdout,
                   reconVars, langVars, scanVars, paraVars, escVars, htmlVars, parseVars>>

\* main.rs 27-36
MainParse ==
    /\ mpc = "parse"
    /\ calls' = Append(calls, "parse")
    /\ LET parsed == parse_result[files[args[2]].value]
       IN  IF parsed.ok
           THEN /\ stdout' = stdout
                       \o HeaderToHtml(parsed.value.header)
                       \o BlocksToHtml(parsed.value.body) \o <<"\n">>
                /\ exit_code' = Some(ExitSuccess)
                /\ UNCHANGED stderr
           ELSE /\ stderr' = Append(stderr, [message |-> "Parse error",
                                            error |-> parsed.error])
                /\ exit_code' = Some(ExitFailure)
                /\ UNCHANGED stdout
    /\ mpc' = "exited"
    /\ UNCHANGED <<args, files, parse_result,
                   reconVars, langVars, scanVars, paraVars, escVars, htmlVars, parseVars>>

-----------------------------------------------------------------------------
(* parse_document (parser.rs 9-109, 148-193). The grammar asciidoc.pest is *)
(* not among the sources: the recognizer of the header, the headings, the  *)
(* delimited blocks and the paragraphs follows the block grammar of the    *)
(* specification (4.1, 4.3), on inputs given line by line.                 *)

\* chars().take_while(|c| c == ch).count()   (parser.rs 189, 323, 349)
RECURSIVE CountLeading(_, _)
CountLeading(s, ch) ==
    IF s # << >> /\ Head(s) = ch THEN 1 + CountLeading(Tail(s), ch) ELSE 0

\* str::trim_start_matches(ch)   (parser.rs 190)
RECURSIVE TrimStartMatches(_, _)
TrimStartMatches(s, ch) ==
    IF s # << >> /\ Head(s) = ch THEN TrimStartMatches(Tail(s), ch) ELSE s

\* parser.rs 187-193
parse_section(content_text) ==
    SectionOf(CountLeading(content_text, "="),
              Trim(TrimStartMatches(content_text, "=")),
              << >>)

\* parser.rs 394-414, as a function of the paragraph_text of each line.
RECURSIVE ParagraphContent(_, _, _)
ParagraphContent(ls, inner, first) ==
    IF ls = << >>
    THEN inner
    ELSE LET spaced == IF NeedsSpace(first, inner)
                       THEN inner \o <<Text(<<" ">>)>>
                       ELSE inner
             scanned == parse_paragraph_content(Head(ls))
         IN  IF scanned = Panics
             THEN Panics
             ELSE ParagraphContent(Tail(ls), spaced \o scanned, FALSE)

parse_paragraph(ls) == Paragraph(ParagraphContent(ls, << >>, TRUE))

\* parser.rs 195-197, 199-247: a delimited block, without attributes.
parse_delimited_block(pair) == DelimitedBlock(pair.kind, pair.content, None)

\* parser.rs 148-161
parse_block(pair) ==
    CASE pair.rule = "section" -> parse_section(pair.text)
      [] pair.rule = "delimited_block" -> parse_delimited_block(pair)
      [] pair.rule = "paragraph" -> parse_paragraph(pair.lines)

PushBlock_UnderSection(bs, block) ==
    IF bs # << >> /\ bs[Len(bs)].type = "Section"
    THEN [bs EXCEPT ![Len(bs)].blocks = Append(@, block)]
    ELSE Append(bs, block)

\* parser.rs 99-101: blocks.push(block)
PushBlock(bs, block) == Append(bs, block)

\* Block grammar 1: the header line, "= " and a title.
IsHeaderLine(line) == Len(line) > 2 /\ line[1] = "=" /\ line[2] = " "

\* Block grammar 2: two to six '=', a space, title text.
IsHeadingLine(line) ==
    LET level == CountLeading(line, "=")
    IN  level \in 2..6 /\ Len(line) > level + 1 /\ line[level + 1] = " "

\* Block grammar 3: a line of four or more of one delimiter character.
DelimiterKind(ch) ==
    CASE ch = "-" -> "Listing"
      [] ch = "=" -> "Example"
      [] ch = "." -> "Literal"
      [] ch = "*" -> "Sidebar"
      [] ch = "_" -> "Quote"

IsDelimiterLine(line) ==
    /\ Len(line) >= 4
    /\ line[1] \in {"-", "=", ".", "*", "_"}
    /\ \A k \in 1..Len(line) : line[k] = line[1]

\* The lines joined with line breaks: the interior of a delimited block.
RECURSIVE JoinLines(_)
JoinLines(ls) ==
    IF ls = << >>
    THEN << >>
    ELSE IF Len(ls) = 1
         THEN ls[1]
         ELSE ls[1] \o <<"\n">> \o JoinLines(Tail(ls))

\* Block grammar 6: a line that goes on a paragraph.
IsParagraphLine(line) ==
    line # << >> /\ ~IsHeadingLine(line) /\ ~IsDelimiterLine(line)

\* The number of lines at the start of ls that IsParagraphLine holds of.
RECURSIVE ParagraphRun(_)
ParagraphRun(ls) ==
    IF ls # << >> /\ IsParagraphLine(Head(ls)) THEN 1 + ParagraphRun(Tail(ls)) ELSE 0

\* Block grammar 2, 3, 6: the blocks of the lines, in their order, or the
\* one parse error when a delimited block is not closed.
RECURSIVE RecognizeBlocks(_)
RecognizeBlocks(ls) ==
    IF ls = << >>
    THEN Ok(<< >>)
    ELSE IF Head(ls) = << >>
    THEN RecognizeBlocks(Tail(ls))
    ELSE IF IsHeadingLine(Head(ls))
    THEN LET rest == RecognizeBlocks(Tail(ls))
         IN  IF rest.ok
             THEN Ok(<<[rule |-> "section", text |-> Head(ls)]>> \o rest.value)
             ELSE rest
    ELSE IF IsDelimiterLine(Head(ls))
    THEN LET closers == {k \in 2..Len(ls) : ls[k] = Head(ls)}
         IN  IF closers = {}
             THEN Err("expected closing delimiter")
             ELSE LET close == SetMin(closers)
                      rest == RecognizeBlocks(SubSeq(ls, close + 1, Len(ls)))
                  IN  IF rest.ok
                      THEN Ok(<<[rule |-> "delimited_block",
                                 kind |-> DelimiterKind(Head(ls)[1]),
                                 content |-> JoinLines(SubSeq(ls, 2, close - 1))]>>
                              \o rest.value)
                      ELSE rest
    ELSE LET run == ParagraphRun(ls)
             rest == RecognizeBlocks(SubSeq(ls, run + 1, Len(ls)))
         IN  IF rest.ok
             THEN Ok(<<[rule |-> "paragraph", lines |-> SubSeq(ls, 1, run)]>>
                     \o rest.value)
             ELSE rest

\* The lines after the blank lines at the start.
RECURSIVE SkipBlank(_)
SkipBlank(ls) ==
    IF ls # << >> /\ Head(ls) = << >> THEN SkipBlank(Tail(ls)) ELSE ls

\* Block grammar 1: the header when the first non-empty line is one, then
\* the blocks.
Recognize(ls) ==
    LET rest == SkipBlank(ls)
    IN  IF rest # << >> /\ IsHeaderLine(Head(rest))
        THEN LET blocks_found == RecognizeBlocks(Tail(rest))
             IN  IF blocks_found.ok
                 THEN Ok([header |-> Some(SubSeq(Head(rest), 3, Len(Head(rest)))),
                          blocks |-> blocks_found.value])
                 ELSE blocks_found
        ELSE LET blocks_found == RecognizeBlocks(rest)
             IN  IF blocks_found.ok
                 THEN Ok([header |-> None, blocks |-> blocks_found.value])
                 ELSE blocks_found

\* parser.rs 43-58, 60-67: the header of the title the grammar found.
parse_header(title) == Header(title)

\* parser.rs 11: the grammar runs; its error is the result of parse_document.
ParseGrammar ==
    /\ dpc = "grammar"
    /\ pairs' = Recognize(source)
    /\ IF pairs'.ok
       THEN dpc' = "blocks" /\ UNCHANGED document
       ELSE dpc' = "done" /\ document' = pairs'
    /\ UNCHANGED <<source, pair_no, pushed_blocks,
                   reconVars, langVars, scanVars, paraVars, escVars, htmlVars, mainVars>>

\* parser.rs 97-103: one turn of the loop of parse_body.
ParseBlock ==
    /\ dpc = "blocks"
    /\ pair_no < Len(pairs.value.blocks)
    /\ pushed_blocks' = PushBlock(pushed_blocks, parse_block(At(pairs.value.blocks, pair_no)))
    /\ pair_no' = pair_no + 1
    /\ UNCHANGED <<source, pairs, document, dpc,
                   reconVars, langVars, scanVars, paraVars, escVars, htmlVars, mainVars>>

\* parser.rs 105-108, 24-41: the attributes are reconciled, the document is
\* returned.
ParseReturn ==
    /\ dpc = "blocks"
    /\ ~(pair_no < Len(pairs.value.blocks))
    /\ pushed_blocks' = process_block_attributes(pushed_blocks)
    /\ document' = Ok(Document(IF IsSome(pairs.value.header)
                               THEN Some(parse_header(Unwrap(pairs.value.header)))
                               ELSE None,
                               pushed_blocks'))
    /\ dpc' = "done"
    /\ UNCHANGED <<source, pairs, pair_no,
                   reconVars, langVars, scanVars, paraVars, escVars, htmlVars, mainVars>>

-----------------------------------------------------------------------------
(* Bounds and inputs.                                                      *)

MaxBlocks == 4
MaxAttrLen == 3

SeqsUpTo(S, n) == UNION {[1..m -> S] : m \in 0..n}

\* The blocks the lists handed to the reconciliation pass are drawn from.
BlockPool ==
    { Paragraph(<<Text(<<"[", "a", "]">>)>>),
      Paragraph(<<Text(<<"[", "x", "=", "1", "]">>)>>),
      Paragraph(<<Text(<<"a", "b">>)>>),
      Paragraph(<<Text(<<"[", "a">>)>>),
      Paragraph(<<Formatted("Strong", <<Text(<<"[", "a", "]">>)>>)>>),
      Paragraph(<<Text(<<"[", "a", "]">>), Text(<<" ">>), Text(<<"[", "b", "]">>)>>),
      DelimitedBlock("Listing", <<"x">>, None),
      DelimitedBlock("Quote", <<"y">>, Some(<<"b">>)),
      Section(2, <<"t">>),
      List("Unordered", << >>),
      BlockMetadata([type |-> "Attribute", attrs |-> <<<<"a">>>>]) }

AttrAlphabet == {"a", ",", "=", ":", " "}

\* "[source,rust]", "[,rust]", "[a=b]", "[]" and every short "[...]".
AttrTexts ==
    { <<"[">> \o s \o <<"]">> : s \in SeqsUpTo(AttrAlphabet, MaxAttrLen) }
    \cup { <<"[", "s", "o", "u", "r", "c", "e", ",", "r", "u", "s", "t", "]">>,
           <<"[", ",", "r", "u", "s", "t", "]">>,
           <<"[", "a", "=", "b", "]">> }

ReconIdle == input_blocks = << >> /\ blocks = << >> /\ i = 0 /\ rpc = "idle"
LangIdle  == attr_text = << >> /\ language = None /\ lpc = "idle"
ScanIdle  == text = << >> /\ current_pos = 0 /\ elements = << >> /\ pc = "idle"
ParaIdle  ==
    lines = << >> /\ line_no = 0 /\ content = << >> /\ first_line = TRUE
        /\ ppc = "idle"

EscIdle ==
    esc_input = << >> /\ esc_first = << >> /\ esc_output = << >> /\ esc_calls = 0

HtmlIdle ==
    doc = Document(None, << >>) /\ html = << >> /\ block_no = 0 /\ hpc = "idle"

MainIdle ==
    /\ args = << >> /\ files = << >> /\ parse_result = << >>
    /\ stdout = << >> /\ stderr = << >> /\ exit_code = None
    /\ calls = << >> /\ mpc = "idle"

ParseIdle ==
    /\ source = << >> /\ pairs = << >> /\ pair_no = 0 /\ pushed_blocks = << >>
    /\ document = << >> /\ dpc = "idle"

MaxTokens == 3

\* The pieces the scanner's inputs are put together from.
Tokens ==
    { <<"*">>, <<"_">>,
      <<"l", "i", "n", "k", ":">>,
      <<"h", "t", "t", "p", ":", "/", "/">>,
      <<"<", "<">>, <<">", ">">>,
      <<"[">>, <<"]">>, <<",">>, <<".">>, <<" ">>, <<"a">> }

RECURSIVE Concat(_)
Concat(ss) == IF ss = << >> THEN << >> ELSE Head(ss) \o Concat(Tail(ss))

\* Longer inputs: the other markers, a two-byte character, labelled links.
Samples ==
    { Concat(<<<<"BQ">>, <<"a">>, <<"BQ">>, <<"^">>, <<"a">>, <<"^">>, <<"~">>, <<"a">>, <<"~">>>>),
      Concat(<<<<"^">>, <<"a">>, <<"~">>, <<"BQ">>>>),
      Concat(<<<<"C3", "A9">>, <<"*">>, <<"C3", "A9">>, <<"*">>, <<"C3", "A9">>>>),
      Concat(<<<<"h", "t", "t", "p", ":", "/", "/">>, <<"C3", "A9">>, <<",">>, <<"a">>>>),
      Concat(<<<<"h", "t", "t", "p", ":", "/", "/">>, <<"C3", "A9">>, <<".">>, <<"C3", "A9">>>>),
      Concat(<<<<"h", "t", "t", "p", ":", "/", "/">>, <<"a">>, <<"[">>, <<"C3", "A9">>, <<"]">>, <<"a">>>>),
      Concat(<<<<"h", "t", "t", "p", ":", "/", "/">>, <<"a">>, <<"[">>, <<"a">>, <<"]">>, <<"*">>, <<"a">>, <<"*">>>>),
      Concat(<<<<"h", "t", "t", "p", ":", "/", "/">>, <<"a">>, <<")">>, <<"a">>>>),
      Concat(<<<<"h", "t", "t", "p", ":", "/", "/">>, <<"a">>, <<"\t">>, <<"a">>>>),
      Concat(<<<<"h", "t", "t", "p", ":", "/", "/">>, <<"a">>, <<".">>, <<"\t">>>>),
      Concat(<<<<"a">>, <<"h", "t", "t", "p", "s", ":", "/", "/">>, <<"a">>, <<".">>, <<"a">>, <<".">>, <<" ">>, <<"a">>>>),
      Concat(<<<<"h", "t", "t", "p", "s", ":", "/", "/">>, <<"a">>, <<"[">>, <<"]">>>>),
      Concat(<<<<"a">>, <<"l", "i", "n", "k", ":">>, <<"a">>, <<"[">>, <<"a">>, <<" ">>, <<"]">>, <<"a">>>>),
      Concat(<<<<"l", "i", "n", "k", ":">>, <<"C3", "A9">>, <<"[">>, <<"C3", "A9">>, <<"]">>>>),
      Concat(<<<<"l", "i", "n", "k", ":">>, <<"h", "t", "t", "p", ":", "/", "/">>, <<"a">>, <<"[">>, <<"*">>, <<"]">>, <<"*">>>>),
      Concat(<<<<"l", "i", "n", "k", ":">>, <<"a">>, <<"&">>, <<"[">>, <<"]">>>>),
      Concat(<<<<"<", "<">>, <<" ">>, <<"a">>, <<" ">>, <<",">>, <<" ">>, <<"a">>, <<" ">>, <<">", ">">>>>),
      Concat(<<<<"<", "<">>, <<"C3", "A9">>, <<",">>, <<"C3", "A9">>, <<">", ">">>, <<"a">>>>),
      Concat(<<<<"*">>, <<"_">>, <<"a">>, <<"_">>, <<"<", "<">>, <<"a">>, <<">", ">">>>>),
      Concat(<<<<"<", "<">>, <<" ">>, <<",">>, <<">", ">">>>>),
      Concat(<<<<"C3", "A9">>, <<"<", "<">>, <<"C3", "A9">>, <<"*">>>>),
      Concat(<<<<"h", "t", "t", "p", ":", "/", "/">>, <<"C3", "A9">>, <<"[">>, <<"C3", "A9">>>>),
      Concat(<<<<"<", "<">>, <<"a">>, <<",">>, <<",">>, <<"a">>, <<">", ">">>, <<">", ">">>>>),
      Concat(<<<<"*">>, <<"a">>, <<"*">>, <<"*">>, <<"a">>>>),
      Concat(<<<<"a">>, <<"_">>, <<"*">>, <<"a">>, <<"_">>, <<"*">>>>),
      Concat(<<<<"h", "t", "t", "p", ":", "/", "/">>, <<"a">>, <<"[">>, <<"a">>, <<"]">>>>),
      Concat(<<<<"a">>, <<" ">>, <<"h", "t", "t", "p", ":", "/", "/">>, <<"a">>, <<"[">>, <<"]">>, <<"a">>>>),
      Concat(<<<<"h", "t", "t", "p", ":", "/", "/">>, <<"a">>, <<"[">>, <<"a">>, <<".">>>>),
      Concat(<<<<"h", "t", "t", "p", ":", "/", "/">>, <<"a">>, <<">">>, <<"a">>>>),
      Concat(<<<<"l", "i", "n", "k", ":">>, <<"a">>, <<"]">>, <<"[">>, <<"a">>, <<"]">>, <<"]">>>>),
      Concat(<<<<"l", "i", "n", "k", ":">>, <<"a">>, <<"[">>, <<"a">>, <<"l", "i", "n", "k", ":">>>>),
      Concat(<<<<"a">>, <<"<">>, <<"\"">>, <<"'">>, <<"l", "i", "n", "k", ":">>, <<"\"">>, <<"[">>, <<"]">>>>) }

ScanInputs == {Concat(ts) : ts \in SeqsUpTo(Tokens, MaxTokens)} \cup Samples

MaxLines == 2

\* The lines the paragraphs of several lines are put together from.
LineSamples ==
    { <<"a">>, <<"*", "a">>, <<"a", "*">>, <<"[", "a", "]">>,
      <<"<", "<", "a", " ", ",">>, <<"a", ">", ">">>,
      <<"h", "t", "t", "p", ":", "/", "/", "a">>, <<"[", "a", "]", " ">> }

\* The paragraphs: every scanner input as a paragraph of one line, and the
\* paragraphs of two to MaxLines lines.
ParagraphInputs ==
    {<<t>> : t \in ScanInputs}
        \cup UNION {[1..m -> LineSamples] : m \in 2..MaxLines}

Init ==
    /\ lines \in ParagraphInputs
    /\ line_no = 0
    /\ content = << >>
    /\ first_line = TRUE
    /\ ppc = "lines"
    /\ ScanIdle /\ ReconIdle /\ LangIdle /\ EscIdle /\ HtmlIdle /\ MainIdle /\ ParseIdle

Next ==
    \/ ParaBeginLine
    \/ ScanMarker
    \/ ScanNoMarker
    \/ ScanExit
    \/ ParaEndLine
    \/ ParaReturn

Spec == Init /\ [][Next]_vars

InitRecon ==
    /\ input_blocks \in SeqsUpTo(BlockPool, MaxBlocks)
    /\ blocks = input_blocks
    /\ i = 0
    /\ rpc = "loop"
    /\ LangIdle /\ ScanIdle /\ ParaIdle /\ EscIdle /\ HtmlIdle /\ MainIdle /\ ParseIdle

NextRecon == ReconMerge \/ ReconAdvance \/ ReconExit

SpecRecon == InitRecon /\ [][NextRecon]_vars

MaxLiveBlocks == 3

\* Longer lists: two merges, attribute paragraphs in a row, block metadata
\* before a delimited block.
ReconSamples ==
    { << Paragraph(<<Text(<<"[", "a", "]">>)>>),
         DelimitedBlock("Listing", <<"x">>, None),
         Paragraph(<<Text(<<"[", "x", "=", "1", "]">>)>>),
         DelimitedBlock("Quote", <<"y">>, Some(<<"b">>)),
         Section(2, <<"t">>) >>,
      << BlockMetadata([type |-> "Attribute", attrs |-> <<<<"a">>>>]),
         DelimitedBlock("Listing", <<"x">>, None),
         Paragraph(<<Text(<<"[", "a", "]">>)>>),
         Paragraph(<<Text(<<"[", "a", "]">>)>>),
         DelimitedBlock("Quote", <<"y">>, Some(<<"b">>)),
         List("Unordered", << >>) >> }

InitReconLive ==
    /\ input_blocks \in SeqsUpTo(BlockPool, MaxLiveBlocks) \cup ReconSamples
    /\ blocks = input_blocks
    /\ i = 0
    /\ rpc = "loop"
    /\ LangIdle /\ ScanIdle /\ ParaIdle /\ EscIdle /\ HtmlIdle /\ MainIdle /\ ParseIdle

\* The pass runs on until it returns: nothing else is scheduled.
SpecReconLive == InitReconLive /\ [][NextRecon]_vars /\ WF_vars(NextRecon)

InitLang ==
    /\ attr_text \in AttrTexts
    /\ language = None
    /\ lpc = "start"
    /\ ReconIdle /\ ScanIdle /\ ParaIdle /\ EscIdle /\ HtmlIdle /\ MainIdle /\ ParseIdle

NextLang == DeriveLanguage

SpecLang == InitLang /\ [][NextLang]_vars

MaxEscLen == 3

\* The characters escape_html is called on: the five it replaces, a letter,
\* and the ';' and '#' its entities are written with.
EscAlphabet == {"&", "<", ">", "\"", "'", "a", ";", "#"}

InitEscape ==
    /\ esc_input \in SeqsUpTo(EscAlphabet, MaxEscLen)
    /\ esc_first = << >>
    /\ esc_output = << >>
    /\ esc_calls = 0
    /\ ReconIdle /\ LangIdle /\ ScanIdle /\ ParaIdle /\ HtmlIdle /\ MainIdle /\ ParseIdle

\* ast.rs 254-260: escape_html called on the text.
EscapeText ==
    /\ esc_calls = 0
    /\ esc_first' = escape_html(esc_input)
    /\ esc_output' = esc_first'
    /\ esc_calls' = 1
    /\ UNCHANGED <<esc_input, reconVars, langVars, scanVars, paraVars, htmlVars, mainVars, parseVars>>

\* ast.rs 254-260: escape_html called on its own result.
EscapeAgain ==
    /\ esc_calls = 1
    /\ esc_output' = escape_html(esc_output)
    /\ esc_calls' = 2
    /\ UNCHANGED <<esc_input, esc_first, reconVars, langVars, scanVars, paraVars, htmlVars, mainVars, parseVars>>

NextEscape == EscapeText \/ EscapeAgain

SpecEscape == InitEscape /\ [][NextEscape]_vars

MaxLevel == 7
MaxBody == 2

DelimitedKinds == {"Listing", "Example", "Literal", "Sidebar", "Quote"}

\* The blocks the documents to render are put together from: sections of
\* every level from 0, one of them with a block inside, both shapes of
\* paragraph, every kind of delimited block without and with a language,
\* the three kinds of list and the three kinds of block metadata.
HtmlBlockPool ==
    { SectionOf(l, <<"t", "&">>, << >>) : l \in 0..MaxLevel }
    \cup { SectionOf(2, <<"t">>, <<Paragraph(<<Text(<<"a">>)>>)>>),
           Paragraph(<<Text(<<"a", "<">>)>>),
           Paragraph(<<Formatted("Strong", <<Text(<<"a">>)>>),
                       Macro(Link(<<"u">>, None))>>) }
    \cup { DelimitedBlock(k, <<"x", ">">>, l) :
              k \in DelimitedKinds, l \in {None, Some(<<"r", "\"">>)} }
    \cup { List("Unordered", <<ListItem("Unordered", <<Text(<<"a">>)>>)>>),
           List("Ordered", <<ListItem("Ordered", <<Text(<<"a">>)>>),
                             ListItem("Ordered", <<Text(<<"b">>)>>)>>),
           List("Description",
                <<DescriptionItem(<<"t">>, Some(<<Text(<<"a">>)>>)),
                  DescriptionItem(<<"t">>, None)>>) }
    \cup { BlockMetadata([type |-> "Title", title |-> <<"t">>]),
           BlockMetadata([type |-> "Attribute", attrs |-> <<<<"a">>>>]),
           BlockMetadata([type |-> "Anchor", id |-> <<"a">>]) }

InitHtml ==
    /\ doc \in { Document(h, b) :
                    h \in {None, Some(Header(<<"T", "&">>))},
                    b \in SeqsUpTo(HtmlBlockPool, MaxBody) }
    /\ html = << >>
    /\ block_no = 0
    /\ hpc = "header"
    /\ ReconIdle /\ LangIdle /\ ScanIdle /\ ParaIdle /\ EscIdle /\ MainIdle /\ ParseIdle

NextHtml == HtmlHeader \/ HtmlBlock \/ HtmlReturn

SpecHtml == InitHtml /\ [][NextHtml]_vars

MaxArgs == 3

Paths == {"a.adoc", "b.adoc"}

\* The contents a file can have, by name, and what parse_document can make
\* of a content.
Contents == {"c1", "c2"}

ParseResults ==
    { Err("syntax"),
      Ok(Document(None, << >>)),
      Ok(Document(Some(Header(<<"T">>)), <<Paragraph(<<Text(<<"a", "<">>)>>)>>)) }

\* The command lines: the program name and up to MaxArgs - 1 arguments.
CommandLines ==
    { <<"adoc">> \o rest : rest \in SeqsUpTo(Paths, MaxArgs - 1) }

InitMain ==
    /\ args \in CommandLines
    /\ files \in [Paths -> {Err("not found")} \cup {Ok(c) : c \in Contents}]
    /\ parse_result \in [Contents -> ParseResults]
    /\ stdout = << >>
    /\ stderr = << >>
    /\ exit_code = None
    /\ calls = << >>
    /\ mpc = "args"
    /\ ReconIdle /\ LangIdle /\ ScanIdle /\ ParaIdle /\ EscIdle /\ HtmlIdle /\ ParseIdle

NextMain == MainCheckArgs \/ MainReadFile \/ MainParse

SpecMain == InitMain /\ [][NextMain]_vars

\* The process runs on as long as it has not ended.
SpecMainLive == SpecMain /\ WF_vars(NextMain)

MaxSourceLines == 4

\* The lines the inputs of parse_document are put together from.
LineHeader == <<"=", " ", "D", "o", "c", "u", "m", "e", "n", "t">>
LineSection1 == <<"=", "=", " ", "S", "e", "c", "t", "i", "o", "n", " ", "1">>
LineSubsection == <<"=", "=", "=", " ", "S", "u", "b", "s", "e", "c", "t", "i", "o", "n">>
LineContent == <<"C", "o", "n", "t", "e", "n", "t">>
LineAttribute == <<"[", "a", "]">>
LineListing == <<"-", "-", "-", "-">>

SourceLinePool ==
    { << >>, LineHeader, LineSection1, LineSubsection, LineContent,
      LineAttribute, LineListing }

\* A header line at the start has a blank line, or nothing, behind it.
HeaderClosed(ls) ==
    LET rest == SkipBlank(ls)
    IN  (Len(rest) >= 2 /\ IsHeaderLine(rest[1])) => rest[2] = << >>

SourceSamples ==
    { << LineHeader, << >>, LineSection1, << >>, LineSubsection, << >>, LineContent >>,
      << LineHeader, << >>, LineAttribute, LineListing, LineContent, LineSection1, LineListing >>,
      << LineSection1, LineContent, LineContent, << >>, LineContent, LineSubsection >> }

Sources ==
    { ls \in SeqsUpTo(SourceLinePool, MaxSourceLines) : HeaderClosed(ls) }
        \cup SourceSamples

InitParse ==
    /\ source \in Sources
    /\ pairs = << >>
    /\ pair_no = 0
    /\ pushed_blocks = << >>
    /\ document = << >>
    /\ dpc = "grammar"
    /\ ReconIdle /\ LangIdle /\ ScanIdle /\ ParaIdle /\ EscIdle /\ HtmlIdle /\ MainIdle

NextParse == ParseGrammar \/ ParseBlock \/ ParseReturn

SpecParse == InitParse /\ [][NextParse]_vars

MaxAttrTokens == 2

\* The pieces the interior of a bracketed line is put together from: the
\* nine markers and text without a marker.
AttrTokens ==
    { Markers[k] : k \in DOMAIN Markers }
        \cup { <<"a">>, <<",">>, <<" ">>, <<">", ">">>, <<"]">>, <<"C3", "A9">> }

\* The bracketed lines, "[" interior "]".
AttrLines ==
    { <<"[">> \o Concat(ts) \o <<"]">> : ts \in SeqsUpTo(AttrTokens, MaxAttrTokens) }

\* The paragraphs before the delimited block: every bracketed line as a
\* paragraph of one line, a line without brackets, the brackets on two lines.
AttrParagraphs ==
    { <<l>> : l \in AttrLines }
        \cup { << <<"a">> >>, << <<"[", "a">>, <<"]">> >>, << <<"[", "a", "]", " ">> >> }

InitAttr ==
    /\ lines \in AttrParagraphs
    /\ line_no = 0
    /\ content = << >>
    /\ first_line = TRUE
    /\ ppc = "lines"
    /\ ScanIdle /\ ReconIdle /\ LangIdle /\ EscIdle /\ HtmlIdle /\ MainIdle /\ ParseIdle

\* parser.rs 97-106: parse_body has pushed the paragraph and the delimited
\* block after it, and calls process_block_attributes on the list.
ParseBodyReconcile ==
    /\ ppc = "done"
    /\ rpc = "idle"
    /\ \E kind \in DelimitedKinds :
          input_blocks' =
              << Paragraph(content),
                 parse_delimited_block([kind |-> kind, content |-> <<"x">>]) >>
    /\ blocks' = input_blocks'
    /\ i' = 0
    /\ rpc' = "loop"
    /\ UNCHANGED <<langVars, scanVars, paraVars, escVars, htmlVars, mainVars, parseVars>>

NextAttr ==
    \/ ParaBeginLine
    \/ ScanMarker
    \/ ScanNoMarker
    \/ ScanExit
    \/ ParaEndLine
    \/ ParaReturn
    \/ ParseBodyReconcile
    \/ ReconMerge
    \/ ReconAdvance
    \/ ReconExit

SpecAttr == InitAttr /\ [][NextAttr]_vars

-----------------------------------------------------------------------------
(* Claims about the reconciliation pass.                                   *)

AttributeBeforeDelimited(bs, k) ==
    /\ k + 1 < Len(bs)
    /\ LooksLikeBlockAttribute(At(bs, k))
    /\ At(bs, k + 1).type = "DelimitedBlock"

\* C1: after process_block_attributes has run, no paragraph of exactly one
\* Text "[...]" stands immediately before a DelimitedBlock, whatever the
\* input list was.
C1_NoAttributeBeforeDelimited ==
    rpc = "done" =>
        \A k \in 0..(Len(blocks) - 1) : ~AttributeBeforeDelimited(blocks, k)

\* C2: a second run of process_block_attributes on the result of the first
\* returns that result unchanged.
C2_FixedPoint ==
    rpc = "done" => process_block_attributes(blocks) = blocks

\* C3: the step taken at an attribute paragraph that stands before a
\* DelimitedBlock removes the paragraph, leaves every other block as it was,
\* puts at position i a block of the same kind and content whose language is
\* the derived one, and does not advance i.
C3_MergeStep ==
    [][ (rpc = "loop" /\ AttributeBeforeDelimited(blocks, i)) =>
          LET para == At(blocks, i)
              next == At(blocks, i + 1)
              now  == At(blocks', i)
          IN  /\ i' = i
              /\ Len(blocks') = Len(blocks) - 1
              /\ now.type = "DelimitedBlock"
              /\ now.kind = next.kind
              /\ now.content = next.content
              /\ now.language = NewLanguage(At(para.content, 0).text)
              /\ \A k \in 0..(i - 1) : At(blocks', k) = At(blocks, k)
              /\ \A k \in (i + 2)..(Len(blocks) - 1) :
                     At(blocks', k - 1) = At(blocks, k)
      ]_vars

\* A merge has just overwritten a present language with an absent one.
C3_Witness ==
    /\ rpc = "loop"
    /\ Len(blocks) = Len(input_blocks) - 1
    /\ i < Len(blocks)
    /\ AttributeBeforeDelimited(input_blocks, i)
    /\ IsSome(At(input_blocks, i + 1).language)
    /\ At(blocks, i).type = "DelimitedBlock"
    /\ At(blocks, i).language = None

\* The input positions the pass consumes: the attribute paragraphs that
\* stand immediately before a DelimitedBlock in the input.
C4_Consumed(bs) == {k \in 0..(Len(bs) - 1) : AttributeBeforeDelimited(bs, k)}

\* Where the block of input position k stands in the result, if it stays.
C4_Position(bs, k) == k - Cardinality({c \in C4_Consumed(bs) : c < k})

\* The attribute paragraphs the claim is about: followed by a block that is
\* not a DelimitedBlock, or last.
C4_Kept(bs) ==
    {k \in 0..(Len(bs) - 1) :
        /\ LooksLikeBlockAttribute(At(bs, k))
        /\ (k + 1 < Len(bs) => At(bs, k + 1).type # "DelimitedBlock")}

\* C4 as stated: such a paragraph is in the result unchanged, and so is the
\* block after it.
C4_KeptAndNextUnchanged ==
    rpc = "done" =>
        \A k \in C4_Kept(input_blocks) :
            LET p == C4_Position(input_blocks, k)
            IN  /\ p < Len(blocks)
                /\ At(blocks, p) = At(input_blocks, k)
                /\ k + 1 < Len(input_blocks) =>
                       /\ p + 1 < Len(blocks)
                       /\ At(blocks, p + 1) = At(input_blocks, k + 1)

\* C4 amended: such a paragraph is in the result unchanged; the block after
\* it is unchanged too unless that block is itself an attribute paragraph
\* standing before a DelimitedBlock, which the pass consumes.
C4_KeptAndNextUnchangedUnlessConsumed ==
    rpc = "done" =>
        \A k \in C4_Kept(input_blocks) :
            LET p == C4_Position(input_blocks, k)
            IN  /\ p < Len(blocks)
                /\ At(blocks, p) = At(input_blocks, k)
                /\ (k + 1 < Len(input_blocks)
                      /\ (k + 1) \notin C4_Consumed(input_blocks)) =>
                       /\ p + 1 < Len(blocks)
                       /\ At(blocks, p + 1) = At(input_blocks, k + 1)

\* The pass has ended on a list in which an attribute paragraph before a
\* Section came after a merged pair, and the paragraph and the Section are
\* still there.
C4_Witness ==
    /\ rpc = "done"
    /\ \E k \in C4_Kept(input_blocks) :
          /\ k + 1 < Len(input_blocks)
          /\ At(input_blocks, k + 1).type = "Section"
          /\ C4_Consumed(input_blocks) # {}
          /\ C4_Position(input_blocks, k) < k
          /\ At(blocks, C4_Position(input_blocks, k)) = At(input_blocks, k)

-----------------------------------------------------------------------------
(* Claims about the language derivation.                                   *)

RECURSIVE C5_JoinComma(_)
C5_JoinComma(pieces) ==
    IF Len(pieces) = 1
    THEN pieces[1]
    ELSE pieces[1] \o <<",">> \o C5_JoinComma(Tail(pieces))

C5_Range(s) == {s[k] : k \in 1..Len(s)}

C5_Qualifies(e) ==
    \/ (e # << >> /\ e[1] = ",")
    \/ (e # << >> /\ "=" \notin C5_Range(e) /\ ":" \notin C5_Range(e))

C5_Value(e) == IF e[1] = "," THEN Tail(e) ELSE e

\* C5: the derived language is the first entry of the bracket interior
\* (split on ',', each entry trimmed) that begins with ',' or is non-empty
\* with neither '=' nor ':', and absent when there is none; "[source,rust]"
\* gives "source", "[,rust]" gives "rust", "[a=b]" and "[]" give absent.
C5_FirstQualifyingEntry ==
    lpc = "done" =>
        LET interior == SubSeq(attr_text, 2, Len(attr_text) - 1)
            pieces == SplitComma(interior)
            entries == AttributeEntries(attr_text)
            Q == {k \in 1..Len(entries) : C5_Qualifies(entries[k])}
        IN  /\ C5_JoinComma(pieces) = interior
            /\ \A k \in 1..Len(pieces) : "," \notin C5_Range(pieces[k])
            /\ Len(entries) = Len(pieces)
            /\ IF Q = {}
               THEN language = None
               ELSE language = Some(C5_Value(entries[SetMin(Q)]))
            /\ (attr_text = <<"[", "s", "o", "u", "r", "c", "e", ",",
                              "r", "u", "s", "t", "]">>)
                   => language = Some(<<"s", "o", "u", "r", "c", "e">>)
            /\ (attr_text = <<"[", ",", "r", "u", "s", "t", "]">>)
                   => language = Some(<<"r", "u", "s", "t">>)
            /\ (attr_text = <<"[", "a", "=", "b", "]">>) => language = None
            /\ (attr_text = <<"[", "]">>) => language = None

\* The language of "[=, a]"-like lines: an entry that does not qualify was
\* passed over and a later one, trimmed, was taken.
C5_Witness ==
    /\ lpc = "done"
    /\ IsSome(language)
    /\ LET entries == AttributeEntries(attr_text)
       IN  /\ Len(entries) >= 2
           /\ ~C5_Qualifies(entries[1])
           /\ \E k \in 2..Len(entries) : Unwrap(language) = entries[k]

-----------------------------------------------------------------------------
(* The inline scanner, restated from the bytes of the text: where the      *)
(* earliest marker is, and what one iteration of the loop has to push.     *)

MarkerSet == {Markers[k] : k \in DOMAIN Markers}

\* The marker m is written at byte offset q of t.
MarkerAt(t, q, m) == q + Len(m) <= Len(t) /\ Slice(t, q, q + Len(m)) = m

\* The offsets at or after pos at which some marker is written.
MarkerOffsets(t, pos) ==
    {q \in pos..(Len(t) - 1) : \E m \in MarkerSet : MarkerAt(t, q, m)}

\* The scanner is at the head of its loop and a marker lies ahead.
MarkerAhead == pc = "scan" /\ MarkerOffsets(text, current_pos) # {}

\* The offset of the earliest marker ahead, and that marker.
MarkerOffset == SetMin(MarkerOffsets(text, current_pos))
MarkerAhead_Is == CHOOSE m \in MarkerSet : MarkerAt(text, MarkerOffset, m)

\* The text before the earliest marker, as the elements it is pushed as.
TextBefore ==
    IF MarkerOffset > current_pos
    THEN <<Text(Slice(text, current_pos, MarkerOffset))>>
    ELSE << >>

\* The iteration pushes the text before the marker, then pushed, and the
\* scanner goes on at offset pos.
Pushes(pushed, pos) ==
    /\ elements' = elements \o TextBefore \o pushed
    /\ current_pos' = pos
    /\ pc' = "scan"

\* The offsets after from at which the byte b is written.
OffsetsOf(b, from) == {q \in from..(Len(text) - 1) : At(text, q) = b}

UrlMarkers ==
    { <<"h", "t", "t", "p", ":", "/", "/">>,
      <<"h", "t", "t", "p", "s", ":", "/", "/">> }

\* The byte at offset q ends a URL: white space, ',', ')', '>', '[', or a
\* '.' that white space or the end of the text follows.
UrlEndsAt(q) ==
    \/ At(text, q) \in {" ", "\t", "\n", ",", ")", ">", "["}
    \/ /\ At(text, q) = "."
       /\ (q + 1 = Len(text) \/ At(text, q + 1) \in {" ", "\t", "\n"})

\* Where the URL that starts at the earliest marker ends.
UrlEndOffset ==
    SetMin({q \in MarkerOffset..Len(text) : q = Len(text) \/ UrlEndsAt(q)})

UrlAhead == Slice(text, MarkerOffset, UrlEndOffset)

-----------------------------------------------------------------------------
(* C6: the elements carry the input.                                       *)

C6_MarkerOf(kind) ==
    CASE kind = "Strong" -> <<"*">>
      [] kind = "Emphasis" -> <<"_">>
      [] kind = "Monospace" -> <<"BQ">>
      [] kind = "Superscript" -> <<"^">>
      [] kind = "Subscript" -> <<"~">>

C6_Label(label) == IF IsSome(label) THEN Unwrap(label) ELSE << >>

\* s is "<<" interior ">>" and the cross-reference holds the interior: all of
\* it as the target, or the target and the text on the two sides of a ','.
\* With trimmed, white space around the target and around the text may have
\* been dropped.
C6_XrefSource(x, s, trimmed) ==
    /\ Len(s) >= 4
    /\ Slice(s, 0, 2) = <<"<", "<">>
    /\ Slice(s, Len(s) - 2, Len(s)) = <<">", ">">>
    /\ LET interior == Slice(s, 2, Len(s) - 2)
       IN  \/ x.target = interior /\ x.text = None
           \/ \E k \in 0..(Len(interior) - 1) :
                 /\ At(interior, k) = ","
                 /\ LET left == Slice(interior, 0, k)
                        right == Slice(interior, k + 1, Len(interior))
                    IN  IF trimmed
                        THEN /\ x.target = Trim(left)
                             /\ C6_Label(x.text) = Trim(right)
                        ELSE /\ x.target = left
                             /\ C6_Label(x.text) = right

\* s is a way of writing the link: "link:" url "[" label "]", url "[" label
\* "]", or the bare url when the link's text is the url.
C6_LinkSource(l, s) ==
    LET bracketed == l.url \o <<"[">> \o C6_Label(l.text) \o <<"]">>
    IN  \/ s = <<"l", "i", "n", "k", ":">> \o bracketed
        \/ s = bracketed
        \/ s = l.url /\ l.text = Some(l.url)

\* s is the piece of input the element e stands for: the element's own
\* characters, in their order, each once, with its markers around them.
C6_Source(e, s, trimmed) ==
    CASE e.type = "Text" -> s = e.text
      [] e.type = "Formatted" ->
            /\ Len(e.content) = 1
            /\ e.content[1].type = "Text"
            /\ s = C6_MarkerOf(e.kind) \o e.content[1].text \o C6_MarkerOf(e.kind)
      [] e.type = "Macro" ->
            IF e.kind.type = "Link"
            THEN C6_LinkSource(e.kind, s)
            ELSE e.kind.type = "CrossReference" /\ C6_XrefSource(e.kind, s, trimmed)

\* s is the pieces of input of the elements es, one after the other.
RECURSIVE C6_Sources(_, _, _)
C6_Sources(es, s, trimmed) ==
    IF es = << >>
    THEN s = << >>
    ELSE \E k \in 0..Len(s) :
            /\ C6_Source(Head(es), Slice(s, 0, k), trimmed)
            /\ C6_Sources(Tail(es), Slice(s, k, Len(s)), trimmed)

\* The lines of a paragraph joined with one space.
RECURSIVE C6_JoinSpace(_)
C6_JoinSpace(ls) ==
    IF ls = << >>
    THEN << >>
    ELSE IF Len(ls) = 1
         THEN ls[1]
         ELSE ls[1] \o <<" ">> \o C6_JoinSpace(Tail(ls))

C6_Carried(trimmed) ==
    /\ pc = "scan" => C6_Sources(elements, Slice(text, 0, current_pos), trimmed)
    /\ pc = "done" => C6_Sources(elements, text, trimmed)
    /\ ppc = "done" => C6_Sources(content, C6_JoinSpace(lines), trimmed)

-----------------------------------------------------------------------------
(* C7: the scanner does not panic.                                         *)

C7_Symmetric == {<<"*">>, <<"_">>, <<"BQ">>, <<"^">>, <<"~">>}

\* The construct that opens at the earliest marker is not closed: a symmetric
\* marker without a second one, "link:" without a '[' and a later ']', "<<"
\* without a later ">>", a URL with a '[' behind it and no later ']'.
C7_Unterminated ==
    /\ MarkerAhead
    /\ LET p == MarkerOffset
           m == MarkerAhead_Is
       IN  \/ m \in C7_Symmetric /\ OffsetsOf(m[1], p + 1) = {}
           \/ /\ m = <<"l", "i", "n", "k", ":">>
              /\ \A b \in OffsetsOf("[", p) : OffsetsOf("]", b + 1) = {}
           \/ /\ m = <<"<", "<">>
              /\ \A q \in (p + 2)..(Len(text) - 2) : ~MarkerAt(text, q, <<">", ">">>)
           \/ /\ m \in UrlMarkers
              /\ UrlEndOffset < Len(text)
              /\ At(text, UrlEndOffset) = "["
              /\ OffsetsOf("]", UrlEndOffset + 1) = {}

\* The iteration pushes the marker as literal text and goes on behind it; a
\* URL is pushed as a link with the URL as its text.
C7_KeptLiteral ==
    IF MarkerAhead_Is \in UrlMarkers
    THEN Pushes(<<Macro(Link(UrlAhead, Some(UrlAhead)))>>, UrlEndOffset)
    ELSE Pushes(<<Text(MarkerAhead_Is)>>, MarkerOffset + Len(MarkerAhead_Is))

\* C7: for every input, with characters of several bytes too, the scanner
\* never panics: no slice is out of range or off a character boundary, and
\* an iteration at an unterminated construct pushes the marker as literal
\* text, or the URL as a plain link.
C7_NeverPanics ==
    /\ [](pc # "panic")
    /\ [][C7_Unterminated => C7_KeptLiteral]_vars

\* A "<<" and a '*' that are never closed, each after a two-byte character,
\* scanned to the end.
C7_Witness ==
    /\ pc = "done"
    /\ text = <<"C3", "A9", "<", "<", "C3", "A9", "*">>
    /\ elements = << Text(<<"C3", "A9">>), Text(<<"<", "<">>),
                     Text(<<"C3", "A9">>), Text(<<"*">>) >>

-----------------------------------------------------------------------------
(* C8: the symmetric markers.                                              *)

C8_Kind(m) ==
    CASE m = <<"*">> -> "Strong"
      [] m = <<"_">> -> "Emphasis"
      [] m = <<"BQ">> -> "Monospace"
      [] m = <<"^">> -> "Superscript"
      [] m = <<"~">> -> "Subscript"

\* The earliest marker ahead is a symmetric one.
C8_AtSymmetric ==
    MarkerAhead /\ MarkerAhead_Is \in {<<"*">>, <<"_">>, <<"BQ">>, <<"^">>, <<"~">>}

\* The offsets after the marker at which the same marker is written again.
C8_Closers == OffsetsOf(MarkerAhead_Is[1], MarkerOffset + 1)

\* C8: for a symmetric marker at p with the next same marker at q > p the
\* scanner pushes one Formatted element of the marker's kind whose content
\* is a single Text of the characters strictly between p and q, and goes on
\* at q + 1; without a later same marker it pushes the marker as literal
\* Text and goes on at p + 1, so that later markers are still found.
C8_SymmetricMarkers ==
    [][ C8_AtSymmetric =>
            IF C8_Closers # {}
            THEN LET q == SetMin(C8_Closers)
                 IN  Pushes(<<Formatted(C8_Kind(MarkerAhead_Is),
                                  <<Text(Slice(text, MarkerOffset + 1, q))>>)>>,
                            q + 1)
            ELSE Pushes(<<Text(MarkerAhead_Is)>>, MarkerOffset + 1) ]_vars

\* "a_*a_*": the emphasis closes over the '*', the last '*' has no partner.
C8_Witness ==
    /\ pc = "done"
    /\ text = <<"a", "_", "*", "a", "_", "*">>
    /\ elements = << Text(<<"a">>),
                     Formatted("Emphasis", <<Text(<<"*", "a">>)>>),
                     Text(<<"*">>) >>

-----------------------------------------------------------------------------
(* C9: the link macro.                                                     *)

\* The earliest marker ahead is "link:".
C9_AtLink == MarkerAhead /\ MarkerAhead_Is = <<"l", "i", "n", "k", ":">>

\* The '[' after the marker, and the ']' after that '['.
C9_Opens == OffsetsOf("[", MarkerOffset)
C9_Closes == OffsetsOf("]", SetMin(C9_Opens) + 1)

\* One character, escaped for HTML.
C9_Entity(ch) ==
    CASE ch = "&" -> <<"&", "a", "m", "p", ";">>
      [] ch = "<" -> <<"&", "l", "t", ";">>
      [] ch = ">" -> <<"&", "g", "t", ";">>
      [] ch = "\"" -> <<"&", "q", "u", "o", "t", ";">>
      [] ch = "'" -> <<"&", "#", "3", "9", ";">>
      [] OTHER -> <<ch>>

RECURSIVE C9_Escaped(_)
C9_Escaped(str) ==
    IF str = << >> THEN << >> ELSE C9_Entity(Head(str)) \o C9_Escaped(Tail(str))

\* <a href="URL">URL</a>, the URL escaped.
C9_AnchorOfUrl(url) ==
    <<"<", "a", " ", "h", "r", "e", "f", "=", "\"">> \o C9_Escaped(url)
        \o <<"\"", ">">> \o C9_Escaped(url) \o <<"<", "/", "a", ">">>

\* C9: at "link:" with a later '[' and a ']' after it the scanner pushes a
\* Link whose URL is the text between "link:" and the first '[' and whose
\* text is the text between the brackets, absent when empty, and goes on
\* after the ']'; a Link pushed with empty brackets renders as
\* <a href="URL">URL</a>. Without the '[' or without the ']' it pushes the
\* literal text "link:" and goes on right after those five bytes.
C9_LinkMacro ==
    [][ C9_AtLink =>
            IF C9_Opens # {} /\ C9_Closes # {}
            THEN LET open == SetMin(C9_Opens)
                     close == SetMin(C9_Closes)
                     url == Slice(text, MarkerOffset + 5, open)
                     label == Slice(text, open + 1, close)
                     link == Macro(Link(url, IF label = << >> THEN None ELSE Some(label)))
                 IN  /\ Pushes(<<link>>, close + 1)
                     /\ label = << >> => InlineToHtml(link) = C9_AnchorOfUrl(url)
            ELSE Pushes(<<Text(<<"l", "i", "n", "k", ":">>)>>, MarkerOffset + 5) ]_vars

\* "link:a&[]": a link with empty brackets, whose HTML names the URL twice.
C9_Witness ==
    /\ pc = "done"
    /\ text = <<"l", "i", "n", "k", ":", "a", "&", "[", "]">>
    /\ elements = <<Macro(Link(<<"a", "&">>, None))>>
    /\ inline_elements_to_html(elements) =
           <<"<", "a", " ", "h", "r", "e", "f", "=", "\"", "a", "&", "a", "m", "p", ";", "\"", ">",
             "a", "&", "a", "m", "p", ";", "<", "/", "a", ">">>

-----------------------------------------------------------------------------
(* C10: the bare URLs.                                                     *)

\* The earliest marker ahead is "http://" or "https://".
C10_AtUrl == MarkerAhead /\ MarkerAhead_Is \in UrlMarkers

\* The URL has a '[' right behind it and a ']' somewhere after that.
C10_Bracketed ==
    /\ UrlEndOffset < Len(text)
    /\ At(text, UrlEndOffset) = "["
    /\ OffsetsOf("]", UrlEndOffset + 1) # {}

C10_Close == SetMin(OffsetsOf("]", UrlEndOffset + 1))

C10_BracketedText == Slice(text, UrlEndOffset + 1, C10_Close)

\* The iteration pushes a link to the URL ahead with the given text.
C10_PushesLink(label, pos) == Pushes(<<Macro(Link(UrlAhead, label))>>, pos)

\* C10 as stated: a URL runs to the first white space, ',', ')', '>', '[' or
\* '.' before white space or the end; with a '[' right behind it and a later
\* ']' the bracketed text is the link's text and the scanner goes on after
\* the ']'; otherwise the URL is the link's text and the scanner goes on at
\* the URL's end.
C10_BareUrl ==
    [][ C10_AtUrl =>
            IF C10_Bracketed
            THEN C10_PushesLink(Some(C10_BracketedText), C10_Close + 1)
            ELSE C10_PushesLink(Some(UrlAhead), UrlEndOffset) ]_vars

\* C10, amended: as stated, but with empty brackets the link's text is
\* absent.
C10_BareUrlEmptyBracketsAbsent ==
    [][ C10_AtUrl =>
            IF C10_Bracketed
            THEN C10_PushesLink(IF C10_BracketedText = << >>
                                THEN None
                                ELSE Some(C10_BracketedText),
                                C10_Close + 1)
            ELSE C10_PushesLink(Some(UrlAhead), UrlEndOffset) ]_vars

\* "a http://a[]a": the URL ends at the '[', the empty brackets leave the
\* link without a text, the scanner goes on after the ']'.
C10_Witness ==
    /\ pc = "done"
    /\ text = <<"a", " ", "h", "t", "t", "p", ":", "/", "/", "a", "[", "]", "a">>
    /\ elements = << Text(<<"a", " ">>),
                     Macro(Link(<<"h", "t", "t", "p", ":", "/", "/", "a">>, None)),
                     Text(<<"a">>) >>

-----------------------------------------------------------------------------
(* C11: the cross-references.                                              *)

\* The earliest marker ahead is "<<".
C11_AtXref == MarkerAhead /\ MarkerAhead_Is = <<"<", "<">>

\* The offsets behind the "<<" at which ">>" is written.
C11_Closes ==
    {q \in (MarkerOffset + 2)..(Len(text) - 2) : MarkerAt(text, q, <<">", ">">>)}

\* str without the white space at its two ends.
C11_Trimmed(str) ==
    LET solid == {k \in 1..Len(str) : str[k] \notin {" ", "\t", "\n"}}
    IN  IF solid = {}
        THEN << >>
        ELSE SubSeq(str, SetMin(solid),
                    CHOOSE k \in solid : \A n \in solid : n <= k)

\* The cross-reference the interior stands for.
C11_Reference(interior) ==
    LET commas == {k \in 1..Len(interior) : interior[k] = ","}
    IN  IF commas = {}
        THEN CrossReference(interior, None)
        ELSE LET k == SetMin(commas)
                 target == C11_Trimmed(SubSeq(interior, 1, k - 1))
                 label == C11_Trimmed(SubSeq(interior, k + 1, Len(interior)))
             IN  CrossReference(target, IF label = << >> THEN None ELSE Some(label))

\* C11: at "<<" at p with a later ">>" the scanner pushes the
\* CrossReference of the interior between them - with a ',' the trimmed part
\* before the first ',' is the target and the trimmed part after it the text,
\* absent when empty; without a ',' the whole interior, untrimmed, is the
\* target and the text is absent - and goes on after the ">>"; without a
\* later ">>" it pushes "<<" as literal Text and goes on at p + 2.
C11_CrossReference ==
    [][ C11_AtXref =>
            IF C11_Closes # {}
            THEN LET q == SetMin(C11_Closes)
                 IN  Pushes(<<Macro(C11_Reference(Slice(text, MarkerOffset + 2, q)))>>,
                            q + 2)
            ELSE Pushes(<<Text(<<"<", "<">>)>>, MarkerOffset + 2) ]_vars

\* "<< a , a >>": target and text are both trimmed to "a".
C11_Witness ==
    /\ pc = "done"
    /\ text = <<"<", "<", " ", "a", " ", ",", " ", "a", " ", ">", ">">>
    /\ elements = <<Macro(CrossReference(<<"a">>, Some(<<"a">>)))>>

-----------------------------------------------------------------------------
(* C12, C13: escape_html.                                                  *)

C12_Substitute(ch) ==
    CASE ch = "&" -> <<"&", "a", "m", "p", ";">>
      [] ch = "<" -> <<"&", "l", "t", ";">>
      [] ch = ">" -> <<"&", "g", "t", ";">>
      [] ch = "\"" -> <<"&", "q", "u", "o", "t", ";">>
      [] ch = "'" -> <<"&", "#", "3", "9", ";">>
      [] OTHER -> <<ch>>

\* The substitutes of the characters of str, one after the other.
RECURSIVE C12_Substituted(_)
C12_Substituted(str) ==
    IF str = << >>
    THEN << >>
    ELSE C12_Substituted(SubSeq(str, 1, Len(str) - 1)) \o C12_Substitute(str[Len(str)])

\* C12: escape_html(s) is s with every '&', '<', '>', '"' and apostrophe
\* replaced by its entity and every other character unchanged; the
\* ampersands of the entities are not escaped again, and the result holds no
\* '<', '>', '"' or apostrophe.
C12_CharacterWise ==
    esc_calls >= 1 =>
        /\ esc_first = C12_Substituted(esc_input)
        /\ \A k \in 1..Len(esc_first) : esc_first[k] \notin {"<", ">", "\"", "'"}

\* "<&'" escaped once: every entity is written with one '&' only.
C12_Witness ==
    /\ esc_calls = 1
    /\ esc_input = <<"<", "&", "'">>
    /\ esc_first = <<"&", "l", "t", ";", "&", "a", "m", "p", ";", "&", "#", "3", "9", ";">>

C13_HasSpecial(str) ==
    \E k \in 1..Len(str) : str[k] \in {"&", "<", ">", "\"", "'"}

\* C13: escaping the result of escape_html again gives the same text exactly
\* when the input holds none of '&', '<', '>', '"', apostrophe, and then
\* escape_html(s) = s; for every input that holds one of them the second
\* result differs from the first.
C13_NotIdempotent ==
    /\ esc_calls >= 1 =>
          (~C13_HasSpecial(esc_input) => esc_first = esc_input)
    /\ esc_calls = 2 =>
          ((esc_output = esc_first) <=> ~C13_HasSpecial(esc_input))

\* "a<" escaped twice: "a&lt;" and then "a&amp;lt;".
C13_Witness ==
    /\ esc_calls = 2
    /\ esc_input = <<"a", "<">>
    /\ esc_first = <<"a", "&", "l", "t", ";">>
    /\ esc_output = <<"a", "&", "a", "m", "p", ";", "l", "t", ";">>

-----------------------------------------------------------------------------
(* C14: the heading tag of a section.                                      *)

C14_Clamped(level) == IF level < 1 THEN 1 ELSE IF level > 6 THEN 6 ELSE level

C14_Digit(n) ==
    CASE n = 1 -> "1" [] n = 2 -> "2" [] n = 3 -> "3"
      [] n = 4 -> "4" [] n = 5 -> "5" [] n = 6 -> "6"

\* <hN>title</hN> and a newline, the title escaped.
C14_Heading(n, title) ==
    <<"<", "h", C14_Digit(n), ">">> \o C12_Substituted(title)
        \o <<"<", "/", "h", C14_Digit(n), ">", "\n">>

\* The block Document::to_html is about to emit.
C14_BlockAhead == At(doc.body, block_no)

C14_SectionAhead ==
    hpc = "body" /\ block_no < Len(doc.body) /\ C14_BlockAhead.type = "Section"

\* seq starts with prefix.
C14_StartsWith(seq, prefix) ==
    Len(seq) >= Len(prefix) /\ SubSeq(seq, 1, Len(prefix)) = prefix

\* C14: for a Section of any stored level L the emitted heading is <hN>
\* with N = L for 1 <= L <= 6, N = 6 for L > 6 and N = 1 for L < 1, the same
\* N in the opening and the closing tag, and the level stored in the node is
\* not changed.
C14_HeadingClamped ==
    [][ C14_SectionAhead =>
            /\ C14_StartsWith(html',
                   html \o C14_Heading(C14_Clamped(C14_BlockAhead.level),
                                       C14_BlockAhead.title))
            /\ doc' = doc ]_vars

-----------------------------------------------------------------------------
(* C18: the HTML of a document.                                            *)

\* <h1>title</h1> and a newline when there is a header, the title escaped.
C18_HeaderLine ==
    IF doc.header = << >>
    THEN << >>
    ELSE <<"<", "h", "1", ">">> \o C12_Substituted(doc.header[1].title)
             \o <<"<", "/", "h", "1", ">", "\n">>

\* The blocks of bs that are not BlockMetadata, in their order.
C18_WithoutMetadata(bs) == SelectSeq(bs, LAMBDA b : b.type # "BlockMetadata")

\* The HTML of every block of bs, one after the other.
C18_Joined(bs) ==
    LET RECURSIVE upto(_)
        upto(k) == IF k = 0 THEN << >> ELSE upto(k - 1) \o BlockToHtml(bs[k])
    IN  upto(Len(bs))

\* C18: the HTML of a document is the line of its header, when it has one,
\* followed by the HTML of each body block in body order with nothing in
\* between; a BlockMetadata block of any kind contributes the empty string,
\* so the output is that of the body without its BlockMetadata blocks.
C18_DocumentHtml ==
    /\ hpc = "body" => html = C18_HeaderLine \o C18_Joined(SubSeq(doc.body, 1, block_no))
    /\ hpc = "done" =>
          /\ html = C18_HeaderLine \o C18_Joined(doc.body)
          /\ html = C18_HeaderLine \o C18_Joined(C18_WithoutMetadata(doc.body))
    /\ \A k \in 1..Len(doc.body) :
          doc.body[k].type = "BlockMetadata" => BlockToHtml(doc.body[k]) = << >>

\* A header, an anchor and a paragraph: the anchor leaves no trace.
C18_Witness ==
    /\ hpc = "done"
    /\ doc = Document(Some(Header(<<"T", "&">>)),
                      << BlockMetadata([type |-> "Anchor", id |-> <<"a">>]),
                         Paragraph(<<Text(<<"a", "<">>)>>) >>)
    /\ html = <<"<", "h", "1", ">", "T", "&", "a", "m", "p", ";", "<", "/", "h", "1", ">", "\n",
                "<", "p", ">", "a", "&", "l", "t", ";", "<", "/", "p", ">", "\n">>

-----------------------------------------------------------------------------
(* C15: the outcomes of the command-line driver.                           *)

C15_OnePath == Len(args) = 2
C15_Readable == C15_OnePath /\ files[args[2]].ok
C15_Parses == C15_Readable /\ parse_result[files[args[2]].value].ok

C15_Failed(made) ==
    /\ exit_code = <<1>>
    /\ Len(stderr) >= 1
    /\ stdout = << >>
    /\ calls = made

C15_Succeeded ==
    /\ exit_code = <<0>>
    /\ stdout # << >>
    /\ stdout[Len(stdout)] = "\n"
    /\ stderr = << >>
    /\ calls = <<"read", "parse">>

C15_Outcome ==
    mpc = "exited" =>
        IF ~C15_OnePath THEN C15_Failed(<< >>)
        ELSE IF ~C15_Readable THEN C15_Failed(<<"read">>)
        ELSE IF ~C15_Parses THEN C15_Failed(<<"read", "parse">>)
        ELSE C15_Succeeded

\* Nothing is read before the argument count is checked, nothing is parsed
\* before the file is read, and nothing is written before the end.
C15_Order ==
    /\ mpc = "args" => calls = << >>
    /\ calls \in {<< >>, <<"read">>, <<"read", "parse">>}
    /\ calls # << >> => C15_OnePath
    /\ Len(calls) = 2 => C15_Readable
    /\ mpc # "exited" => stdout = << >> /\ stderr = << >> /\ exit_code = << >>

\* C15: the driver ends, in exactly one of four ways: with an argument
\* count other than one path it exits with code 1; when the file cannot be
\* read it exits with code 1; when parsing fails it exits with code 1;
\* otherwise it writes the HTML to standard output and exits with code 0.
\* In the three failures a message is on standard error and nothing on
\* standard output; the file is not read before the argument count is
\* checked, nor parsed before it is read.
C15_FourOutcomes ==
    /\ [](C15_Outcome /\ C15_Order)
    /\ <>(mpc = "exited")

\* The file was read and did not parse: exit code 1, nothing on standard
\* output.
C15_Witness ==
    /\ mpc = "exited"
    /\ C15_Readable
    /\ ~C15_Parses
    /\ exit_code = <<1>>
    /\ stdout = << >>
    /\ calls = <<"read", "parse">>

-----------------------------------------------------------------------------
(* C19: the earliest marker first, no way back, no nesting.                *)

\* The element e is what the construct of the marker m can be pushed as: a
\* Formatted of m's kind around a single Text, a link, a cross-reference,
\* or the marker as literal Text.
C19_ConstructOf(e, m) ==
    \/ e = Text(m)
    \/ /\ m \in C7_Symmetric
       /\ e.type = "Formatted"
       /\ e.kind = C8_Kind(m)
       /\ Len(e.content) = 1
       /\ e.content[1].type = "Text"
    \/ /\ m = <<"l", "i", "n", "k", ":">>
       /\ e.type = "Macro"
       /\ e.kind.type = "Link"
    \/ /\ m \in UrlMarkers
       /\ e.type = "Macro"
       /\ e.kind.type = "Link"
       /\ C14_StartsWith(e.kind.url, m)
    \/ /\ m = <<"<", "<">>
       /\ e.type = "Macro"
       /\ e.kind.type = "CrossReference"

\* The characters of the element that are text, where a marker would show.
C19_Plain(e) ==
    CASE e.type = "Text" -> TRUE
      [] e.type = "Formatted" -> \A k \in 1..Len(e.content) : e.content[k].type = "Text"
      [] e.type = "Macro" -> TRUE

C19_Iteration ==
    IF MarkerAhead
    THEN /\ pc' = "scan"
         /\ Len(elements') = Len(elements) + Len(TextBefore) + 1
         /\ SubSeq(elements', 1, Len(elements') - 1) = elements \o TextBefore
         /\ C19_ConstructOf(elements'[Len(elements')], MarkerAhead_Is)
         /\ C19_Plain(elements'[Len(elements')])
         /\ current_pos' >= MarkerOffset + Len(MarkerAhead_Is)
    ELSE /\ pc' = "done"
         /\ elements' = Append(elements, Text(Slice(text, current_pos, Len(text))))

-----------------------------------------------------------------------------
(* C20: a paragraph and its joined text.                                   *)

\* C20: the inline HTML of a paragraph is the inline HTML of the scanner
\* applied once to the paragraph's lines joined with one space each, also
\* when a marker opened on one line is closed on a later line.
C20_ScansJoinedText ==
    ppc = "done" =>
        inline_elements_to_html(content) =
            inline_elements_to_html(parse_paragraph_content(C6_JoinSpace(lines)))

-----------------------------------------------------------------------------
(* C16, C17: sections in the parsed body.                                  *)

\* The document of the result's body, once parse_document has returned it.
C16_Parsed == dpc = "done" /\ document.ok
C16_Body == document.value.body

C16_Sections(bs) == SelectSeq(bs, LAMBDA b : b.type = "Section")
C16_Headings == SelectSeq(pairs.value.blocks, LAMBDA b : b.rule = "section")

\* The number of '=' the line starts with.
C16_Level(line) ==
    LET others == {k \in 1..Len(line) : line[k] # "="}
    IN  IF others = {} THEN Len(line) ELSE SetMin(others) - 1

\* "= Document", "== Section 1", "=== Subsection" and "Content", with blank
\* lines between them.
C16_Example ==
    << <<"=", " ", "D", "o", "c", "u", "m", "e", "n", "t">>, << >>,
       <<"=", "=", " ", "S", "e", "c", "t", "i", "o", "n", " ", "1">>, << >>,
       <<"=", "=", "=", " ", "S", "u", "b", "s", "e", "c", "t", "i", "o", "n">>, << >>,
       <<"C", "o", "n", "t", "e", "n", "t">> >>

C16_ExampleBody ==
    << [type |-> "Section", level |-> 2,
        title |-> <<"S", "e", "c", "t", "i", "o", "n", " ", "1">>, blocks |-> << >>],
       [type |-> "Section", level |-> 3,
        title |-> <<"S", "u", "b", "s", "e", "c", "t", "i", "o", "n">>, blocks |-> << >>],
       [type |-> "Paragraph",
        content |-> <<[type |-> "Text", text |-> <<"C", "o", "n", "t", "e", "n", "t">>]>>] >>

C17_OneTopLevelSection ==
    (dpc = "done" /\ source = C16_Example) =>
        /\ document.ok
        /\ Len(C16_Body) = 1
        /\ C16_Body[1].type = "Section"
        /\ C16_Body[1].level = 2
        /\ C16_Body[1].title = <<"S", "e", "c", "t", "i", "o", "n", " ", "1">>

-----------------------------------------------------------------------------
(* C21: the scanner makes progress and ends.                               *)

\* What one iteration may do: leave the loop, or go on at a position that
\* is behind the one before and not behind the end of the text.
C21_Progress ==
    \/ pc' = "done"
    \/ /\ pc' = "scan"
       /\ current_pos' > current_pos
       /\ current_pos' <= Len(text)

\* C21: the scanner terminates on every input: the position is never behind
\* the end of the text, and each iteration of the loop either ends the scan
\* or sets current_pos to a value strictly greater than before and at most
\* the length of the text, whichever branch it takes; the distance to the
\* end of the text is a natural number that every iteration but the last
\* makes smaller, so the loop is left after at most Len(text) + 1 of them.
C21_Terminates ==
    [][ pc = "scan" => (current_pos \in 0..Len(text) /\ C21_Progress) ]_vars

\* "*<<link:": an unclosed '*', a "<<" without ">>" and a "link:" without
\* brackets, each kept as text, the position at the end of the text.
C21_Witness ==
    /\ pc = "done"
    /\ text = <<"*", "<", "<", "l", "i", "n", "k", ":">>
    /\ elements = <<Text(<<"*">>), Text(<<"<", "<">>), Text(<<"l", "i", "n", "k", ":">>)>>
    /\ current_pos = Len(text)

-----------------------------------------------------------------------------
(* C22: the reconciliation pass ends and touches only the merged pairs.    *)

\* The block of the result that the input block at position k has become.
C22_Now(k) == At(blocks, C4_Position(input_blocks, k))

\* The input block at position k stands right after a consumed paragraph.
C22_AfterConsumed(k) == k > 0 /\ (k - 1) \in C4_Consumed(input_blocks)

\* The result is the input without the consumed paragraphs, in the order of
\* the input; a block right after a consumed paragraph differs at most in
\* its language, every other block is as it was.
C22_Frame ==
    LET consumed == C4_Consumed(input_blocks)
    IN  /\ Len(blocks) = Len(input_blocks) - Cardinality(consumed)
        /\ \A k \in 0..(Len(input_blocks) - 1) :
              k \notin consumed =>
                  IF C22_AfterConsumed(k)
                  THEN /\ C22_Now(k).type = "DelimitedBlock"
                       /\ C22_Now(k).kind = At(input_blocks, k).kind
                       /\ C22_Now(k).content = At(input_blocks, k).content
                  ELSE C22_Now(k) = At(input_blocks, k)

\* Every Section, List and BlockMetadata of the input is in the result, as
\* it was and in the same order.
C22_Untouched ==
    LET other(b) == b.type \in {"Section", "List", "BlockMetadata"}
    IN  SelectSeq(blocks, other) = SelectSeq(input_blocks, other)

\* One iteration leaves the loop or brings the index nearer to the end of
\* the list.
C22_Nearer ==
    \/ rpc' = "done"
    \/ /\ rpc' = "loop"
       /\ i' <= Len(blocks')
       /\ Len(blocks') - i' < Len(blocks) - i

\* C22: reconciliation terminates on every block list and touches nothing
\* but merged pairs: its result is the input list with each consumed
\* attribute paragraph deleted, the order of the remaining blocks unchanged,
\* every block other than the DelimitedBlock right after a consumed
\* paragraph identical to its input and every such DelimitedBlock the same
\* in kind and content. No Section, List or BlockMetadata is removed or
\* altered, a BlockMetadata of kind Attribute before a DelimitedBlock
\* included.
C22_TerminatesAndFrame ==
    /\ [](rpc = "done" => (C22_Frame /\ C22_Untouched))
    /\ [][rpc = "loop" => C22_Nearer]_vars
    /\ <>(rpc = "done")

\* The pass has ended on a list with a BlockMetadata of kind Attribute
\* before a DelimitedBlock and, behind them, a merged pair: the metadata
\* and the block after it are as they were, the paragraph is gone and the
\* language of its block has changed.
C22_Witness ==
    /\ rpc = "done"
    /\ Len(input_blocks) >= 4
    /\ At(input_blocks, 0).type = "BlockMetadata"
    /\ At(input_blocks, 0).kind.type = "Attribute"
    /\ At(input_blocks, 1).type = "DelimitedBlock"
    /\ At(blocks, 0) = At(input_blocks, 0)
    /\ At(blocks, 1) = At(input_blocks, 1)
    /\ \E k \in C4_Consumed(input_blocks) :
          /\ k >= 2
          /\ C22_Now(k + 1).language # At(input_blocks, k + 1).language
          /\ Len(blocks) = Len(input_blocks) - 1

-----------------------------------------------------------------------------
(* C23: an attribute line with an inline marker inside.                    *)

\* The paragraph is one line, "[" interior "]".
C23_Bracketed ==
    /\ Len(lines) = 1
    /\ Len(lines[1]) >= 2
    /\ lines[1][1] = "["
    /\ lines[1][Len(lines[1])] = "]"

C23_Interior == SubSeq(lines[1], 2, Len(lines[1]) - 1)

\* Some marker is written in the interior.
C23_MarkerInside ==
    \E m \in MarkerSet : \E q \in 0..Len(C23_Interior) : MarkerAt(C23_Interior, q, m)

\* The pass has merged the paragraph into the block after it.
C23_IsMerged == Len(blocks) = 1 /\ blocks[1].type = "DelimitedBlock"

\* C23: an attribute line is merged only when the scanner has turned it into
\* exactly one Text; a line "[...]" with an inline marker in its interior is
\* scanned into two or more elements or into an element that is not a Text,
\* so that the paragraph stays in the body and the DelimitedBlock after it
\* keeps its absent language.
C23_MergedOnlyAsOneText ==
    rpc = "done" =>
        /\ C23_IsMerged =>
               /\ Len(lines) = 1
               /\ content = <<Text(lines[1])>>
        /\ (C23_Bracketed /\ C23_MarkerInside) =>
               /\ Len(content) >= 2 \/ content[1].type # "Text"
               /\ blocks = input_blocks
               /\ blocks[1] = Paragraph(content)
               /\ blocks[2].type = "DelimitedBlock"
               /\ blocks[2].language = None

\* "[a_]" before a listing: the '_' makes three Texts of the line, the
\* paragraph is still there and the listing has no language.
C23_Witness ==
    /\ rpc = "done"
    /\ lines = << <<"[", "a", "_", "]">> >>
    /\ content = <<Text(<<"[", "a">>), Text(<<"_">>), Text(<<"]">>)>>
    /\ Len(blocks) = 2
    /\ blocks[2] = DelimitedBlock("Listing", <<"x">>, None)

-----------------------------------------------------------------------------
(* C24: the language of a delimited block in the HTML.                     *)

C24_DelimitedAhead ==
    hpc = "body" /\ block_no < Len(doc.body)
        /\ C14_BlockAhead.type = "DelimitedBlock"

\* The tags around the content of a block of a kind other than Listing.
C24_Open(kind) ==
    CASE kind = "Example" -> <<"<", "d", "i", "v", " ", "c", "l", "a", "s", "s", "=", "\"", "e", "x", "a", "m", "p", "l", "e", "\"", ">">>
      [] kind = "Literal" -> <<"<", "p", "r", "e", ">">>
      [] kind = "Sidebar" -> <<"<", "a", "s", "i", "d", "e", ">">>
      [] kind = "Quote" -> <<"<", "b", "l", "o", "c", "k", "q", "u", "o", "t", "e", ">">>

C24_Close(kind) ==
    CASE kind = "Example" -> <<"<", "/", "d", "i", "v", ">", "\n">>
      [] kind = "Literal" -> <<"<", "/", "p", "r", "e", ">", "\n">>
      [] kind = "Sidebar" -> <<"<", "/", "a", "s", "i", "d", "e", ">", "\n">>
      [] kind = "Quote" -> <<"<", "/", "b", "l", "o", "c", "k", "q", "u", "o", "t", "e", ">", "\n">>

\* The class attribute of the <code> tag: none without a language.
C24_Class(lang) ==
    IF lang = << >>
    THEN << >>
    ELSE <<" ", "c", "l", "a", "s", "s", "=", "\"", "l", "a", "n", "g", "u", "a", "g", "e", "-">>
             \o C9_Escaped(lang[1]) \o <<"\"">>

\* The HTML of a delimited block: the language shows in a Listing only.
C24_Html(kind, body, lang) ==
    IF kind = "Listing"
    THEN <<"<", "p", "r", "e", ">", "<", "c", "o", "d", "e">> \o C24_Class(lang) \o <<">">>
             \o C9_Escaped(body)
             \o <<"<", "/", "c", "o", "d", "e", ">", "<", "/", "p", "r", "e", ">", "\n">>
    ELSE C24_Open(kind) \o C9_Escaped(body) \o C24_Close(kind)

\* Language values to compare, and attribute lines to merge.
C24_Languages == { << >>, << <<"r">> >>, << <<"r", "\"">> >>, << << >> >> }

C24_AttributeLines ==
    { <<"[", "a", "]">>, <<"[", "x", "=", "1", "]">>,
      <<"[", "s", "o", "u", "r", "c", "e", ",", "r", "u", "s", "t", "]">> }

\* C24: the language of a DelimitedBlock shows in the HTML of a Listing
\* only, where a present language X adds class="language-" and the escaped
\* X to the <code> tag and an absent one adds no class attribute; the HTML
\* of an Example, Literal, Sidebar or Quote block is the same for every
\* language value, so that an attribute line merged into such a block leaves
\* no trace in the output.
C24_LanguageInListingOnly ==
    [][ C24_DelimitedAhead =>
          LET b == C14_BlockAhead
          IN  /\ html' = html \o C24_Html(b.kind, b.content, b.language)
              /\ b.kind # "Listing" =>
                    /\ \A l \in C24_Languages :
                          BlockToHtml([b EXCEPT !.language = l]) = BlockToHtml(b)
                    /\ \A t \in C24_AttributeLines :
                          BlocksToHtml(process_block_attributes(
                              <<Paragraph(<<Text(t)>>), b>>)) = BlockToHtml(b)
      ]_vars

\* A listing with the language r" has been emitted, the quote escaped.
C24_Witness ==
    /\ hpc = "done"
    /\ doc.header = None
    /\ doc.body = <<DelimitedBlock("Listing", <<"x", ">">>, Some(<<"r", "\"">>))>>
    /\ html = <<"<", "p", "r", "e", ">", "<", "c", "o", "d", "e", " ", "c", "l", "a", "s", "s", "=", "\"",
                "l", "a", "n", "g", "u", "a", "g", "e", "-", "r", "&", "q", "u", "o", "t", ";", "\"", ">",
                "x", "&", "g", "t", ";",
                "<", "/", "c", "o", "d", "e", ">", "<", "/", "p", "r", "e", ">", "\n">>

-----------------------------------------------------------------------------
(* C25: what the scanner pushes.                                           *)

\* The element is one the scanner makes: a Text that is not empty, a
\* Formatted, a link or a cross-reference.
C25_Emitted(e) ==
    \/ e.type = "Text" /\ Len(e.text) >= 1
    \/ e.type = "Formatted"
    \/ e.type = "Macro" /\ e.kind.type \in {"Link", "CrossReference"}

\* C25: the scanner never pushes an empty Text at the top level, and pushes
\* nothing for the empty text: every Text of its elements has a length of
\* at least 1, the Text inside a Formatted alone may be empty, and no
\* element is a LineBreak or an Image macro.
C25_NoEmptyText ==
    /\ \A k \in 1..Len(elements) : C25_Emitted(elements[k])
    /\ (pc = "done" /\ text = << >>) => elements = << >>

\* "**" has been scanned: one Strong around an empty Text.
C25_Witness ==
    /\ pc = "done"
    /\ text = <<"*", "*">>
    /\ elements = <<Formatted("Strong", <<Text(<< >>)>>)>>

====
